---- MODULE Spec2Model ----
(***************************************************************************)
(* Verification model of the sui-best-practices book: the two SDK demo     *)
(* scripts (object query, BCS round trip) and the Move tutorial contracts  *)
(* (NFT auction market, digital NFT transfers).                            *)
(*                                                                         *)
(* Every Move entry point is one atomic action: a Move transaction either  *)
(* commits all its effects or aborts with a code and commits none.         *)
(***************************************************************************)
EXTENDS Integers, Sequences, FiniteSets, TLC

VARIABLES
    \* ---- object_query demo (src/unnamed/part_003) ----
    dpc,            \* position of demonstrateObjectQueries
    di,             \* index of the for..of loop over exampleObjects (1-based)
    qpc,            \* position of the running queryObject call
    objectId,       \* argument of the running queryObject call
    objectInfo,     \* const objectInfo of the running queryObject call
    error,          \* the value bound by catch (error)
    getObjectLog,   \* one record per client.getObject call: id and how it settled
    qret,           \* how each finished queryObject call completed
    console,        \* what was written to console.log / console.error
    \* ---- BCS demo (src/docs/bcs/bcs_demo.js) ----
    bpc,            \* index of the next library call of demonstrateBCS
    bvalue,         \* slot -> the value constructed by the script
    serialized,     \* slot -> the bytes returned by serialize(..).toBytes()
    deserialized,   \* slot -> the value returned by parse(..)
    bsteps,         \* the step headers printed so far
    bdone,          \* the completion line was printed
    bcaught,        \* the error logged by the top-level catch
    bescaped,       \* an exception propagated out of the script
    bexc,           \* the exception in flight inside demonstrateBCS
    \* ---- auction::nft_auction (composite-ownership-pattern.md) ----
    market,         \* the shared AuctionMarket
    auctions,       \* the shared Auction objects, in creation order
    owned,          \* address -> set of AuctionNFT ids owned by the address
    funds,          \* address -> total value of the Coin<SUI> it owns
    epoch,          \* tx_context::epoch
    last,           \* the last auction transaction and how it ended
    \* ---- nft_market::digital_nft (ownership-transfer-pattern.md) ----
    nfts,           \* NFT id -> the NFT object and its holder
    tlast,          \* the last digital_nft transaction and how it ended
    \* ---- nft_collection::batch_nft (batch-processing-pattern.md) ----
    collection,     \* the NFTCollection the NFTs are minted for
    bnfts,          \* the NFT objects in creation order, each with its holder
    blast,          \* the batch_nft transaction being executed and how it ended
    \* ---- game::gift_system, game::trade_system (conditional-ownership-pattern-part2.md) ----
    gift,           \* the GiftBox, the items each address owns, the returned Option, the epoch
    glast,          \* the last gift_system transaction and how it ended
    trade,          \* the TradeProposal and the items each address owns
    plast,          \* the last trade_system transaction and how it ended
    loop,           \* good_loop: its input, and after the call its result
    \* ---- game::item_crafting (borrowing-pattern-deep-dive.md) ----
    craft,          \* the GameItems created so far, the CraftingRecipe
    clast,          \* the item_crafting transaction being executed and how it ended
    \* ---- wallet::digital_wallet (borrowing-pattern-deep-dive.md) ----
    wallet,         \* the Wallet and its holder
    wlast           \* the last digital_wallet call and what it returned

qvars == <<dpc, di, qpc, objectId, objectInfo, error, getObjectLog, qret, console>>
bvars == <<bpc, bvalue, serialized, deserialized, bsteps, bdone, bcaught, bescaped, bexc>>
avars == <<market, auctions, owned, funds, epoch, last>>
nvars == <<nfts, tlast>>
tvars == <<collection, bnfts, blast>>
gvars == <<gift, glast>>
pvars == <<trade, plast>>
lvars == <<loop>>
cvars == <<craft, clast>>
wvars == <<wallet, wlast>>
vars == <<qvars, bvars, avars, nvars, tvars, gvars, pvars, lvars, cvars, wvars>>

\* What a step of one program leaves alone: the state of the other programs.
exceptQuery == <<bvars, avars, nvars, tvars, gvars, pvars, lvars, cvars, wvars>>
exceptBcs == <<qvars, avars, nvars, tvars, gvars, pvars, lvars, cvars, wvars>>
exceptAuction == <<qvars, bvars, nvars, tvars, gvars, pvars, lvars, cvars, wvars>>
exceptNft == <<qvars, bvars, avars, tvars, gvars, pvars, lvars, cvars, wvars>>
exceptBatch == <<qvars, bvars, avars, nvars, gvars, pvars, lvars, cvars, wvars>>
exceptGift == <<qvars, bvars, avars, nvars, tvars, pvars, lvars, cvars, wvars>>
exceptTrade == <<qvars, bvars, avars, nvars, tvars, gvars, lvars, cvars, wvars>>
exceptLoop == <<qvars, bvars, avars, nvars, tvars, gvars, pvars, cvars, wvars>>
exceptCraft == <<qvars, bvars, avars, nvars, tvars, gvars, pvars, lvars, wvars>>
exceptWallet == <<qvars, bvars, avars, nvars, tvars, gvars, pvars, lvars, cvars>>

Last(s) == s[Len(s)]


(***************************************************************************)
(* Object query demo                                                       *)
(***************************************************************************)

\* The ids of const exampleObjects, in list order.
exampleObjects == << "0x6b0c", "0x0006" >>

\* Values client.getObject can resolve with (object data, or an error
\* response for an object that does not exist).
ObjectInfos == { [kind |-> "info", data |-> d] : d \in {"package", "clock", "notExists"} }

\* Error objects thrown by the SDK or by the result processing.
Errors == { [kind |-> "Error", message |-> m] : m \in {"fetch failed", "Invalid params"} }

null == [kind |-> "null"]
pending == [kind |-> "pending"]

QInit ==
    /\ dpc = "start"
    /\ di = 1
    /\ qpc = "idle"
    /\ objectId = "none"
    /\ objectInfo = null
    /\ error = null
    /\ getObjectLog = <<>>
    /\ qret = <<>>
    /\ console = <<>>

log(text) == [stream |-> "log", text |-> text]
logError(text) == [stream |-> "error", text |-> text]

\* A catch block that rethrows instead of returning null.
queryObject_catchRethrows(e) == [kind |-> "throw", value |-> e]

\* catch (error) { console.error(.., error.message); return null }
queryObject_catchResult(e) == [kind |-> "return", value |-> null]

\* A loop that queries a failed entry again.
forOfRetryFailed(i, result) == IF result.value = null THEN i ELSE i + 1

\* for..of: the iterator moves to the next entry whatever queryObject returned.
forOfAdvance(i, result) == i + 1

\* demonstrateObjectQueries: the two banner lines before the loop.
demonstrateObjectQueries_start ==
    /\ dpc = "start"
    /\ console' = console \o << log("banner"), log("rule80") >>
    /\ dpc' = "loop"
    /\ UNCHANGED <<di, qpc, objectId, objectInfo, error, getObjectLog, qret>>
    /\ UNCHANGED exceptQuery

\* for (const example of exampleObjects): header line, then queryObject(example.id).
demonstrateObjectQueries_iterate ==
    /\ dpc = "loop"
    /\ di <= Len(exampleObjects)
    /\ console' = Append(console, log("example"))
    /\ objectId' = exampleObjects[di]
    /\ qpc' = "try"
    /\ dpc' = "await"
    /\ UNCHANGED <<di, objectInfo, error, getObjectLog, qret>>
    /\ UNCHANGED exceptQuery

\* queryObject: the two log lines of the try block, then client.getObject is called.
queryObject_try ==
    /\ qpc = "try"
    /\ console' = console \o << log("query"), log("rule60") >>
    /\ getObjectLog' = Append(getObjectLog, [id |-> objectId, outcome |-> pending, thrown |-> null])
    /\ qpc' = "awaiting"
    /\ UNCHANGED <<dpc, di, objectId, objectInfo, error, qret>>
    /\ UNCHANGED exceptQuery

\* The awaited client.getObject promise resolves.
getObject_resolve ==
    /\ qpc = "awaiting"
    /\ \E info \in ObjectInfos :
        /\ objectInfo' = info
        /\ getObjectLog' = [getObjectLog EXCEPT ![Len(getObjectLog)].outcome = info]
    /\ qpc' = "process"
    /\ UNCHANGED <<dpc, di, objectId, error, qret, console>>
    /\ UNCHANGED exceptQuery

\* The awaited client.getObject promise rejects: control enters the catch block.
getObject_reject ==
    /\ qpc = "awaiting"
    /\ \E e \in Errors :
        /\ error' = e
        /\ getObjectLog' = [getObjectLog EXCEPT ![Len(getObjectLog)].outcome = e]
    /\ qpc' = "catch"
    /\ UNCHANGED <<dpc, di, objectId, objectInfo, qret, console>>
    /\ UNCHANGED exceptQuery

\* The processing and display of the result throws inside the try block.
queryObject_processThrows ==
    /\ qpc = "process"
    /\ \E e \in Errors :
        /\ error' = e
        /\ getObjectLog' = [getObjectLog EXCEPT ![Len(getObjectLog)].thrown = e]
    /\ qpc' = "catch"
    /\ UNCHANGED <<dpc, di, objectId, objectInfo, qret, console>>
    /\ UNCHANGED exceptQuery

\* return objectInfo
queryObject_return ==
    /\ qpc = "process"
    /\ qret' = Append(qret, [kind |-> "return", value |-> objectInfo])
    /\ qpc' = "idle"
    /\ dpc' = "resume"
    /\ UNCHANGED <<di, objectId, objectInfo, error, getObjectLog, console>>
    /\ UNCHANGED exceptQuery

\* catch (error): log the message, return null.
queryObject_catch ==
    /\ qpc = "catch"
    /\ console' = Append(console, logError(error.message))
    /\ qret' = Append(qret, queryObject_catchResult(error))
    /\ qpc' = "idle"
    /\ dpc' = "resume"
    /\ UNCHANGED <<di, objectId, objectInfo, error, getObjectLog>>
    /\ UNCHANGED exceptQuery

\* After await queryObject(..): the separator line, then the next entry.
\* The awaited promise always fulfils here; a rejection would leave the loop.
demonstrateObjectQueries_resume ==
    /\ dpc = "resume"
    /\ IF Last(qret).kind = "return"
       THEN /\ console' = Append(console, log("rule80"))
            /\ di' = forOfAdvance(di, Last(qret))
            /\ dpc' = "loop"
       ELSE /\ dpc' = "rejected"
            /\ UNCHANGED <<console, di>>
    /\ UNCHANGED <<qpc, objectId, objectInfo, error, getObjectLog, qret>>
    /\ UNCHANGED exceptQuery

\* The loop is exhausted.
demonstrateObjectQueries_end ==
    /\ dpc = "loop"
    /\ di > Len(exampleObjects)
    /\ dpc' = "done"
    /\ UNCHANGED <<di, qpc, objectId, objectInfo, error, getObjectLog, qret, console>>
    /\ UNCHANGED exceptQuery

QNext ==
    \/ demonstrateObjectQueries_start
    \/ demonstrateObjectQueries_iterate
    \/ queryObject_try
    \/ getObject_resolve
    \/ getObject_reject
    \/ queryObject_processThrows
    \/ queryObject_return
    \/ queryObject_catch
    \/ demonstrateObjectQueries_resume
    \/ demonstrateObjectQueries_end

(***************************************************************************)
(* BCS demo: JavaScript values and the BCS encoding of @mysten/bcs         *)
(***************************************************************************)

\* JavaScript values, tagged with their runtime type.
BigIntV(n) == [k |-> "bigint", n |-> n]
StringV(s) == [k |-> "string", s |-> s]
Uint8ArrayV(b) == [k |-> "Uint8Array", b |-> b]
ArrayV(a) == [k |-> "Array", a |-> a]
ObjectV(f) == [k |-> "object", f |-> f]
TrueV == [k |-> "boolean", v |-> TRUE]
unset == [k |-> "undefined"]

\* bcs.bytes(32), new Uint8Array(32)
ADDRESS_LENGTH == 32

\* Length of the longest string of the checked value set (above 127, so that
\* the length prefix takes more than one byte).
MaxStringLen == 130

\* A faulty encoder: it keeps only the low four bits of every byte.
RECURSIVE LittleEndianLowNibbles(_, _)
LittleEndianLowNibbles(n, w) ==
    IF w = 0 THEN <<>> ELSE <<n % 16>> \o LittleEndianLowNibbles(n \div 256, w - 1)

\* n as w little-endian bytes.
RECURSIVE LittleEndian(_, _)
LittleEndian(n, w) ==
    IF w = 0 THEN <<>> ELSE <<n % 256>> \o LittleEndian(n \div 256, w - 1)

RECURSIVE FromLittleEndian(_)
FromLittleEndian(b) ==
    IF b = <<>> THEN 0 ELSE Head(b) + 256 * FromLittleEndian(Tail(b))

\* ULEB128 length prefix of strings and vectors.
RECURSIVE ULEB128(_)
ULEB128(n) ==
    IF n < 128 THEN <<n>> ELSE <<128 + (n % 128)>> \o ULEB128(n \div 128)

\* Reads a ULEB128 number: [v |-> number, rest |-> remaining bytes].
RECURSIVE ReadULEB128(_)
ReadULEB128(b) ==
    IF Head(b) < 128
    THEN [v |-> Head(b), rest |-> Tail(b)]
    ELSE LET r == ReadULEB128(Tail(b))
         IN [v |-> (Head(b) - 128) + 128 * r.v, rest |-> r.rest]

\* BigInt.prototype.toString(): the decimal digits as character codes.
RECURSIVE Decimal(_)
Decimal(n) ==
    IF n < 10 THEN <<48 + n>> ELSE Append(Decimal(n \div 10), 48 + (n % 10))

\* BigInt(string) of a decimal string.
RECURSIVE FromDecimal(_)
FromDecimal(s) ==
    IF Len(s) = 1 THEN Head(s) - 48
    ELSE 10 * FromDecimal(SubSeq(s, 1, Len(s) - 1)) + (Last(s) - 48)

Rest(b, n) == SubSeq(b, n + 1, Len(b))

\* ---- writers: value -> bytes ----
WriteU64(v) == LittleEndian(v.n, 8)
WriteString(v) == ULEB128(Len(v.s)) \o v.s
WriteBytes32(v) == v.b

RECURSIVE WriteU64Seq(_)
WriteU64Seq(a) == IF a = <<>> THEN <<>> ELSE WriteU64(Head(a)) \o WriteU64Seq(Tail(a))

WriteVectorU64(v) == ULEB128(Len(v.a)) \o WriteU64Seq(v.a)
WriteCoin(v) == WriteU64(v.f["value"]) \o WriteString(v.f["coinType"])
WriteSimpleTransaction(v) ==
    WriteBytes32(v.f["sender"]) \o WriteBytes32(v.f["recipient"])
        \o WriteU64(v.f["amount"]) \o WriteU64(v.f["gas"])

\* bcs.enum: the variant index, then the variant's data.
WriteStatus(v) ==
    IF "Active" \in DOMAIN v.f THEN <<0>>
    ELSE IF "Inactive" \in DOMAIN v.f THEN <<1>> \o WriteString(v.f["Inactive"])
    ELSE <<2>> \o WriteU64(v.f["Pending"])

\* type.serialize(value).toBytes()
serialize(type, v) ==
    CASE type = "u64" -> WriteU64(v)
      [] type = "string" -> WriteString(v)
      [] type = "bytes32" -> WriteBytes32(v)
      [] type = "vector<u64>" -> WriteVectorU64(v)
      [] type = "Coin" -> WriteCoin(v)
      [] type = "SimpleTransaction" -> WriteSimpleTransaction(v)
      [] type = "Status" -> WriteStatus(v)

\* ---- readers: bytes -> [v |-> value, rest |-> remaining bytes] ----
\* A u64 is read as the decimal string of the number.
ReadU64(b) ==
    [v |-> StringV(Decimal(FromLittleEndian(SubSeq(b, 1, 8)))), rest |-> Rest(b, 8)]

ReadString(b) ==
    LET l == ReadULEB128(b)
    IN [v |-> StringV(SubSeq(l.rest, 1, l.v)), rest |-> Rest(l.rest, l.v)]

ReadBytes32(b) ==
    [v |-> Uint8ArrayV(SubSeq(b, 1, ADDRESS_LENGTH)), rest |-> Rest(b, ADDRESS_LENGTH)]

RECURSIVE ReadU64Seq(_, _)
ReadU64Seq(b, n) ==
    IF n = 0 THEN <<>> ELSE <<ReadU64(b).v>> \o ReadU64Seq(ReadU64(b).rest, n - 1)

ReadVectorU64(b) ==
    LET l == ReadULEB128(b)
    IN [v |-> ArrayV(ReadU64Seq(l.rest, l.v)), rest |-> Rest(l.rest, 8 * l.v)]

ReadCoin(b) ==
    LET value == ReadU64(b)
        coinType == ReadString(value.rest)
    IN [v |-> ObjectV([value |-> value.v, coinType |-> coinType.v]), rest |-> coinType.rest]

ReadSimpleTransaction(b) ==
    LET sender == ReadBytes32(b)
        recipient == ReadBytes32(sender.rest)
        amount == ReadU64(recipient.rest)
        gas == ReadU64(amount.rest)
    IN [v |-> ObjectV([sender |-> sender.v, recipient |-> recipient.v,
                       amount |-> amount.v, gas |-> gas.v]),
        rest |-> gas.rest]

\* The parsed enum carries the $kind of its variant.
ReadStatus(b) ==
    CASE Head(b) = 0 ->
            [v |-> ObjectV(("$kind" :> StringV("Active")) @@ ("Active" :> TrueV)),
             rest |-> Tail(b)]
      [] Head(b) = 1 ->
            [v |-> ObjectV(("$kind" :> StringV("Inactive")) @@ ("Inactive" :> ReadString(Tail(b)).v)),
             rest |-> ReadString(Tail(b)).rest]
      [] Head(b) = 2 ->
            [v |-> ObjectV(("$kind" :> StringV("Pending")) @@ ("Pending" :> ReadU64(Tail(b)).v)),
             rest |-> ReadU64(Tail(b)).rest]

\* type.parse(bytes)
parse(type, b) ==
    CASE type = "u64" -> ReadU64(b).v
      [] type = "string" -> ReadString(b).v
      [] type = "bytes32" -> ReadBytes32(b).v
      [] type = "vector<u64>" -> ReadVectorU64(b).v
      [] type = "Coin" -> ReadCoin(b).v
      [] type = "SimpleTransaction" -> ReadSimpleTransaction(b).v
      [] type = "Status" -> ReadStatus(b).v

(***************************************************************************)
(* BCS demo: the script                                                    *)
(***************************************************************************)

\* The constants of the script, one slot each.
Slots == {"number", "text", "addressBytes", "vector", "coin", "transaction",
          "activeStatus", "inactiveStatus", "pendingStatus"}

\* The BCS type each slot is serialized with.
TypeOf(slot) ==
    CASE slot = "number" -> "u64"
      [] slot = "text" -> "string"
      [] slot = "addressBytes" -> "bytes32"
      [] slot = "vector" -> "vector<u64>"
      [] slot = "coin" -> "Coin"
      [] slot = "transaction" -> "SimpleTransaction"
      [] slot \in {"activeStatus", "inactiveStatus", "pendingStatus"} -> "Status"

\* The library calls of demonstrateBCS in program order, with the
\* demonstration step each belongs to.
Calls == <<
    [step |-> 1, op |-> "serialize", slot |-> "number"],
    [step |-> 1, op |-> "parse", slot |-> "number"],
    [step |-> 2, op |-> "serialize", slot |-> "text"],
    [step |-> 2, op |-> "parse", slot |-> "text"],
    [step |-> 3, op |-> "serialize", slot |-> "addressBytes"],
    [step |-> 3, op |-> "parse", slot |-> "addressBytes"],
    [step |-> 4, op |-> "serialize", slot |-> "vector"],
    [step |-> 4, op |-> "parse", slot |-> "vector"],
    [step |-> 5, op |-> "serialize", slot |-> "coin"],
    [step |-> 5, op |-> "parse", slot |-> "coin"],
    [step |-> 6, op |-> "serialize", slot |-> "transaction"],
    [step |-> 6, op |-> "parse", slot |-> "transaction"],
    [step |-> 7, op |-> "serialize", slot |-> "activeStatus"],
    [step |-> 7, op |-> "serialize", slot |-> "inactiveStatus"],
    [step |-> 7, op |-> "serialize", slot |-> "pendingStatus"],
    [step |-> 7, op |-> "parse", slot |-> "activeStatus"],
    [step |-> 7, op |-> "parse", slot |-> "inactiveStatus"],
    [step |-> 7, op |-> "parse", slot |-> "pendingStatus"] >>

Zeros(n) == [i \in 1..n |-> 0]
AddressEndingIn(x) == [i \in 1..ADDRESS_LENGTH |-> IF i = ADDRESS_LENGTH THEN x ELSE 0]

\* 'Hello Sui!', '0x2::sui::SUI', 'Maintenance' as UTF-8 bytes.
HelloSui == <<72, 101, 108, 108, 111, 32, 83, 117, 105, 33>>
SuiCoinType == <<48, 120, 50, 58, 58, 115, 117, 105, 58, 58, 83, 85, 73>>
Maintenance == <<77, 97, 105, 110, 116, 101, 110, 97, 110, 99, 101>>
LongString == [i \in 1..MaxStringLen |-> 97]

\* The values each slot is checked with: the script's own constant and
\* boundary values of the same type.
Values(slot) ==
    CASE slot = "number" -> { BigIntV(n) : n \in {0, 42, 1000000000} }
      [] slot = "text" -> { StringV(s) : s \in {<<>>, HelloSui, LongString} }
      [] slot = "addressBytes" -> { Uint8ArrayV(b) : b \in {Zeros(ADDRESS_LENGTH), AddressEndingIn(255)} }
      [] slot = "vector" ->
            { ArrayV(a) : a \in {<<>>, <<BigIntV(1), BigIntV(2), BigIntV(3), BigIntV(4), BigIntV(5)>>} }
      [] slot = "coin" ->
            { ObjectV([value |-> BigIntV(1000000), coinType |-> StringV(SuiCoinType)]),
              ObjectV([value |-> BigIntV(0), coinType |-> StringV(<<>>)]) }
      [] slot = "transaction" ->
            { ObjectV([sender |-> Uint8ArrayV(AddressEndingIn(1)),
                       recipient |-> Uint8ArrayV(AddressEndingIn(2)),
                       amount |-> BigIntV(a), gas |-> BigIntV(1000000)]) : a \in {1000000000, 255} }
      [] slot = "activeStatus" -> { ObjectV("Active" :> TrueV) }
      [] slot = "inactiveStatus" ->
            { ObjectV("Inactive" :> StringV(s)) : s \in {Maintenance, <<>>} }
      [] slot = "pendingStatus" ->
            { ObjectV("Pending" :> BigIntV(n)) : n \in {12345, 256} }

BInit ==
    /\ bpc = 1
    /\ bvalue = [s \in Slots |-> unset]
    /\ serialized = [s \in Slots |-> <<>>]
    /\ deserialized = [s \in Slots |-> unset]
    /\ bsteps = <<>>
    /\ bdone = FALSE
    /\ bcaught = null
    /\ bescaped = FALSE
    /\ bexc = null

BRunning == bexc = null /\ bcaught = null /\ ~bescaped /\ ~bdone

\* The header of a step is printed before the step's first library call.
WithHeader(steps, step) == IF steps # <<>> /\ Last(steps) = step THEN steps ELSE Append(steps, step)

\* A script without the try/catch around demonstrateBCS().
topLevelUncaught(e) == [caught |-> null, escaped |-> TRUE]

\* try { demonstrateBCS() } catch (error) { console.error(.., error) }
topLevelCatch(e) == [caught |-> e, escaped |-> FALSE]

\* const x = ...; const bytes = type.serialize(x).toBytes()
demonstrateBCS_serialize ==
    /\ BRunning
    /\ bpc <= Len(Calls)
    /\ Calls[bpc].op = "serialize"
    /\ LET c == Calls[bpc]
       IN /\ \E v \in Values(c.slot) :
                /\ bvalue' = [bvalue EXCEPT ![c.slot] = v]
                /\ serialized' = [serialized EXCEPT ![c.slot] = serialize(TypeOf(c.slot), v)]
          /\ bsteps' = WithHeader(bsteps, c.step)
    /\ bpc' = bpc + 1
    /\ UNCHANGED <<deserialized, bdone, bcaught, bescaped, bexc>>
    /\ UNCHANGED exceptBcs

\* const back = type.parse(bytes)
demonstrateBCS_parse ==
    /\ BRunning
    /\ bpc <= Len(Calls)
    /\ Calls[bpc].op = "parse"
    /\ LET c == Calls[bpc]
       IN /\ deserialized' = [deserialized EXCEPT ![c.slot] = parse(TypeOf(c.slot), serialized[c.slot])]
          /\ bsteps' = WithHeader(bsteps, c.step)
    /\ bpc' = bpc + 1
    /\ UNCHANGED <<bvalue, serialized, bdone, bcaught, bescaped, bexc>>
    /\ UNCHANGED exceptBcs

\* The library call at bpc throws instead of returning.
demonstrateBCS_throws ==
    /\ BRunning
    /\ bpc <= Len(Calls)
    /\ \E e \in Errors : bexc' = e
    /\ bsteps' = WithHeader(bsteps, Calls[bpc].step)
    /\ UNCHANGED <<bpc, bvalue, serialized, deserialized, bdone, bcaught, bescaped>>
    /\ UNCHANGED exceptBcs

\* console.log('=== BCS 演示完成 ===')
demonstrateBCS_complete ==
    /\ BRunning
    /\ bpc = Len(Calls) + 1
    /\ bdone' = TRUE
    /\ UNCHANGED <<bpc, bvalue, serialized, deserialized, bsteps, bcaught, bescaped, bexc>>
    /\ UNCHANGED exceptBcs

\* The exception unwinds demonstrateBCS and reaches the top-level try/catch.
bcs_demo_catch ==
    /\ bexc # null
    /\ bcaught' = topLevelCatch(bexc).caught
    /\ bescaped' = topLevelCatch(bexc).escaped
    /\ bexc' = null
    /\ UNCHANGED <<bpc, bvalue, serialized, deserialized, bsteps, bdone>>
    /\ UNCHANGED exceptBcs

BNext ==
    \/ demonstrateBCS_serialize
    \/ demonstrateBCS_parse
    \/ demonstrateBCS_throws
    \/ demonstrateBCS_complete
    \/ bcs_demo_catch

(***************************************************************************)
(* auction::nft_auction                                                    *)
(***************************************************************************)

Addresses == {"A", "B", "C"}
AuctionNFTs == {"nft1"}
none == "none"

\* Largest value of the modelled u64: arithmetic beyond it aborts the
\* transaction.  The width is scaled down so that overflow is reachable.
U64_MAX == 35000

\* At most this many auctions are created in one run.
MaxAuctions == 1
\* The epoch advances up to this value.
MaxEpoch == 1

\* The starting prices and durations create_auction is called with.
StartingPrices == {0, 1}
Durations == {0, 1}

\* Basis points of the platform fee: the divisor of finalize_auction.
BASIS_POINTS == 10000

\* platform_fee_rate is a plain u64 field that no function of the module
\* restricts: 2.5% (the example of the field's comment), 50%, 100% and 150%.
FeeRates == {250, 5000, 10000, 15000}

OK == "OK"
ENotSeller == "ENotSeller"
EAuctionEnded == "EAuctionEnded"
EAuctionActive == "EAuctionActive"
EBidTooLow == "EBidTooLow"
\* Aborts raised by the Move VM and by sui::balance.
ARITHMETIC_ERROR == "ARITHMETIC_ERROR"
ENotEnough == "ENotEnough"

\* The record of an auction transaction: the call, its abort code (OK when it
\* committed) and the Coin<SUI> it created with coin::take and transferred.
AuctionTx(op, sender, a, code, amount, coin_to, coin_value) ==
    [op |-> op, sender |-> sender, auction |-> a, code |-> code, amount |-> amount,
     coin_to |-> coin_to, coin_value |-> coin_value]

\* The market as published with the given fee rate, and the objects and
\* coins the addresses start with.
AInit(rates) ==
    /\ \E rate \in rates :
        market = [active_auctions |-> <<>>, total_auctions |-> 0,
                  platform_fee_rate |-> rate, platform_balance |-> 0]
    /\ auctions = <<>>
    /\ owned = [a \in Addresses |-> IF a = "A" THEN AuctionNFTs ELSE {}]
    /\ funds = [a \in Addresses |-> IF a = "A" THEN 0 ELSE IF a = "B" THEN 2 ELSE 4]
    /\ epoch = 0
    /\ last = AuctionTx("init", none, 0, OK, 0, none, 0)

\* A transfer that drops the object.
public_transfer_dropped(own, nft, recipient) == own

\* transfer::public_transfer of an AuctionNFT
public_transfer(own, nft, recipient) == [own EXCEPT ![recipient] = @ \cup {nft}]

\* An Auction object whose deposit starts at the starting price.
NewAuction_deposit_starting_price(nft, seller, starting_price, duration, now) ==
    [nft |-> nft, seller |-> seller, starting_price |-> starting_price,
     current_bid |-> starting_price, highest_bidder |-> none, bid_deposit |-> starting_price,
     end_time |-> now + duration, is_active |-> TRUE]

\* The Auction object built by create_auction.
NewAuction(nft, seller, starting_price, duration, now) ==
    [nft |-> nft, seller |-> seller, starting_price |-> starting_price,
     current_bid |-> starting_price, highest_bidder |-> none, bid_deposit |-> 0,
     end_time |-> now + duration, is_active |-> TRUE]

\* create_auction: the sender passes an AuctionNFT it owns by value.
create_auction(seller, nft, starting_price, duration) ==
    /\ Len(auctions) < MaxAuctions
    /\ nft \in owned[seller]
    /\ auctions' = Append(auctions, NewAuction(nft, seller, starting_price, duration, epoch))
    /\ market' = [market EXCEPT !.active_auctions = Append(@, Len(auctions) + 1),
                                !.total_auctions = @ + 1]
    /\ owned' = [owned EXCEPT ![seller] = @ \ {nft}]
    /\ last' = AuctionTx("create_auction", seller, Len(auctions) + 1, OK, starting_price, none, 0)
    /\ UNCHANGED <<funds, epoch>>

\* Asserts that accept a bid equal to the current bid.
place_bid_code_equal_bid(auction, bid_amount, now) ==
    IF ~auction.is_active THEN EAuctionEnded
    ELSE IF ~(now < auction.end_time) THEN EAuctionEnded
    ELSE IF ~(bid_amount >= auction.current_bid) THEN EBidTooLow
    ELSE OK

\* The asserts of place_bid, in order.
place_bid_code(auction, bid_amount, now) ==
    IF ~auction.is_active THEN EAuctionEnded
    ELSE IF ~(now < auction.end_time) THEN EAuctionEnded
    ELSE IF ~(bid_amount > auction.current_bid) THEN EBidTooLow
    ELSE OK

\* A refund of the starting price instead of the deposit.
refund_starting_price(auction) == auction.starting_price

\* The amount place_bid refunds to the previous highest bidder.
refund_amount(auction) == auction.bid_deposit

\* place_bid: the sender passes a Coin<SUI> of value bid_amount it owns.
place_bid(a, bidder, bid_amount) ==
    LET auction == auctions[a]
        code == place_bid_code(auction, bid_amount, epoch)
        hasPrevious == auction.highest_bidder # none
        refund == IF hasPrevious THEN refund_amount(auction) ELSE 0
        \* coin::take of the refund, then balance::join of the bid
        deposit == (auction.bid_deposit - refund) + bid_amount
        paid == [funds EXCEPT ![bidder] = @ - bid_amount]
        refunded == IF hasPrevious
                    THEN [paid EXCEPT ![auction.highest_bidder] = @ + refund]
                    ELSE paid
    IN /\ bid_amount \in 0..funds[bidder]
       /\ last' = IF code = OK /\ hasPrevious
                  THEN AuctionTx("place_bid", bidder, a, code, bid_amount, auction.highest_bidder, refund)
                  ELSE AuctionTx("place_bid", bidder, a, code, bid_amount, none, 0)
       /\ IF code = OK
          THEN /\ auctions' = [auctions EXCEPT ![a] =
                        [@ EXCEPT !.bid_deposit = deposit,
                                  !.current_bid = bid_amount,
                                  !.highest_bidder = bidder]]
               /\ funds' = refunded
          ELSE UNCHANGED <<auctions, funds>>
       /\ UNCHANGED <<market, owned, epoch>>

\* A fee computed in per mille instead of basis points.
platform_fee_permille(final_price, rate) == (final_price * rate) \div 1000

\* let platform_fee = (final_price * market.platform_fee_rate) / 10000
platform_fee(final_price, rate) == (final_price * rate) \div BASIS_POINTS

\* The asserts and the aborting arithmetic of finalize_auction, in order.
finalize_auction_code(mkt, auction, now) ==
    IF ~(now >= auction.end_time) THEN EAuctionActive
    ELSE IF ~auction.is_active THEN EAuctionEnded
    ELSE IF auction.highest_bidder = none THEN OK
    ELSE IF auction.current_bid * mkt.platform_fee_rate > U64_MAX THEN ARITHMETIC_ERROR
    ELSE IF platform_fee(auction.current_bid, mkt.platform_fee_rate) > auction.current_bid
         THEN ARITHMETIC_ERROR
    ELSE IF platform_fee(auction.current_bid, mkt.platform_fee_rate) > auction.bid_deposit
         THEN ENotEnough
    ELSE IF mkt.platform_balance + platform_fee(auction.current_bid, mkt.platform_fee_rate) > U64_MAX
         THEN ARITHMETIC_ERROR
    ELSE IF auction.current_bid - platform_fee(auction.current_bid, mkt.platform_fee_rate)
              > auction.bid_deposit - platform_fee(auction.current_bid, mkt.platform_fee_rate)
         THEN ENotEnough
    ELSE OK

\* What finalize_auction does to market.active_auctions: nothing.
finalize_active_auctions(list, a) == list

\* finalize_auction reads the epoch of ctx only: any sender may call it.
finalize_auction(a) ==
    LET auction == auctions[a]
        code == finalize_auction_code(market, auction, epoch)
        winner == auction.highest_bidder
        fee == platform_fee(auction.current_bid, market.platform_fee_rate)
        seller_amount == auction.current_bid - fee
        to == IF winner # none THEN winner ELSE auction.seller
    IN /\ last' = IF code = OK /\ winner # none
                  THEN AuctionTx("finalize_auction", none, a, code, 0, auction.seller, seller_amount)
                  ELSE AuctionTx("finalize_auction", none, a, code, 0, none, 0)
       /\ IF code = OK
          THEN /\ auctions' = [auctions EXCEPT ![a] =
                        [@ EXCEPT !.is_active = FALSE,
                                  !.bid_deposit = IF winner # none THEN (@ - fee) - seller_amount ELSE @,
                                  !.nft = none]]
               /\ market' = [market EXCEPT
                        !.platform_balance = IF winner # none THEN @ + fee ELSE @,
                        !.active_auctions = finalize_active_auctions(@, a)]
               /\ funds' = IF winner # none
                           THEN [funds EXCEPT ![auction.seller] = @ + seller_amount]
                           ELSE funds
               /\ owned' = IF auction.nft # none
                           THEN public_transfer(owned, auction.nft, to)
                           ELSE owned
          ELSE UNCHANGED <<auctions, market, funds, owned>>
       /\ UNCHANGED epoch

\* A cancel_auction without the seller check.
cancel_auction_code_anyone(auction, sender) ==
    IF ~auction.is_active THEN EAuctionEnded
    ELSE IF auction.highest_bidder # none THEN EAuctionActive
    ELSE OK

\* The asserts and the abort of cancel_auction, in order.
cancel_auction_code(auction, sender) ==
    IF ~(sender = auction.seller) THEN ENotSeller
    ELSE IF ~auction.is_active THEN EAuctionEnded
    ELSE IF auction.highest_bidder # none THEN EAuctionActive
    ELSE OK

cancel_auction(a, sender) ==
    LET auction == auctions[a]
        code == cancel_auction_code(auction, sender)
    IN /\ last' = AuctionTx("cancel_auction", sender, a, code, 0, none, 0)
       /\ IF code = OK
          THEN /\ auctions' = [auctions EXCEPT ![a] = [@ EXCEPT !.is_active = FALSE, !.nft = none]]
               /\ owned' = IF auction.nft # none
                           THEN public_transfer(owned, auction.nft, auction.seller)
                           ELSE owned
          ELSE UNCHANGED <<auctions, owned>>
       /\ UNCHANGED <<market, funds, epoch>>

\* (u64, u64, u64): total_auctions, length of active_auctions, platform balance
get_market_stats(mkt) == <<mkt.total_auctions, Len(mkt.active_auctions), mkt.platform_balance>>

\* The chain moves to the next epoch.
advance_epoch ==
    /\ epoch < MaxEpoch
    /\ epoch' = epoch + 1
    /\ last' = AuctionTx("advance_epoch", none, 0, OK, 0, none, 0)
    /\ UNCHANGED <<market, auctions, owned, funds>>
    /\ UNCHANGED exceptAuction

CreateAuction ==
    /\ \E seller \in Addresses, nft \in AuctionNFTs,
          starting_price \in StartingPrices, duration \in Durations :
            create_auction(seller, nft, starting_price, duration)
    /\ UNCHANGED exceptAuction

PlaceBid ==
    /\ \E a \in 1..Len(auctions), bidder \in Addresses :
            \E bid_amount \in 0..funds[bidder] : place_bid(a, bidder, bid_amount)
    /\ UNCHANGED exceptAuction

FinalizeAuction ==
    /\ \E a \in 1..Len(auctions) : finalize_auction(a)
    /\ UNCHANGED exceptAuction

CancelAuction ==
    /\ \E a \in 1..Len(auctions), sender \in Addresses : cancel_auction(a, sender)
    /\ UNCHANGED exceptAuction

ANext ==
    \/ CreateAuction
    \/ PlaceBid
    \/ FinalizeAuction
    \/ CancelAuction
    \/ advance_epoch

(***************************************************************************)
(* nft_market::digital_nft                                                 *)
(***************************************************************************)

NFTIds == {"d1", "d2"}

ENotOwner == "ENotOwner"
EInvalidRecipient == "EInvalidRecipient"

\* An NFT that object::new has not created yet.
unminted == [holder |-> none, owner |-> none, creator |-> none]
\* An NFT whose UID was deleted.
burned == [holder |-> "burned", owner |-> none, creator |-> none]

NInit ==
    /\ nfts = [id \in NFTIds |-> unminted]
    /\ tlast = [op |-> "init", sender |-> none, nft |-> none, recipient |-> none, code |-> OK]

Tx(op, sender, id, recipient, code) ==
    [op |-> op, sender |-> sender, nft |-> id, recipient |-> recipient, code |-> code]

\* mint_nft: owner is the recipient, creator the sender; the NFT goes to the recipient.
mint_nft(sender, id, recipient) ==
    /\ nfts[id] = unminted
    /\ nfts' = [nfts EXCEPT ![id] = [holder |-> recipient, owner |-> recipient, creator |-> sender]]
    /\ tlast' = Tx("mint_nft", sender, id, recipient, OK)

\* transfer_nft / gift_nft: nft.owner = recipient, then public_transfer.
transfer_nft(sender, id, recipient) ==
    /\ nfts[id].holder = sender
    /\ nfts' = [nfts EXCEPT ![id] = [@ EXCEPT !.owner = recipient, !.holder = recipient]]
    /\ tlast' = Tx("transfer_nft", sender, id, recipient, OK)

\* A transfer_by_owner that lacks the ownership assert.
transfer_by_owner_unchecked(nft, sender) == OK

\* assert!(nft.owner == tx_context::sender(ctx), ENotOwner)
transfer_by_owner_code(nft, sender) == IF nft.owner = sender THEN OK ELSE ENotOwner

transfer_by_owner(sender, id, recipient) ==
    LET code == transfer_by_owner_code(nfts[id], sender)
    IN /\ nfts[id].holder = sender
       /\ tlast' = Tx("transfer_by_owner", sender, id, recipient, code)
       /\ IF code = OK
          THEN nfts' = [nfts EXCEPT ![id] = [@ EXCEPT !.owner = recipient, !.holder = recipient]]
          ELSE UNCHANGED nfts

\* demonstrate_complete_transfer: public_transfer without touching nft.owner.
demonstrate_complete_transfer(sender, id, new_owner) ==
    /\ nfts[id].holder = sender
    /\ nfts' = [nfts EXCEPT ![id] = [@ EXCEPT !.holder = new_owner]]
    /\ tlast' = Tx("demonstrate_complete_transfer", sender, id, new_owner, OK)

\* burn_nft: only the owner may destroy the NFT.
burn_nft(sender, id) ==
    LET code == IF nfts[id].owner = sender THEN OK ELSE ENotOwner
    IN /\ nfts[id].holder = sender
       /\ tlast' = Tx("burn_nft", sender, id, none, code)
       /\ IF code = OK
          THEN nfts' = [nfts EXCEPT ![id] = burned]
          ELSE UNCHANGED nfts

\* @0x0, the address the recipient checks refuse.
ZeroAddress == "0x0"
\* The recipient arguments of the functions that validate the recipient.
Recipients == Addresses \cup {ZeroAddress}

ELengthMismatch == "ELengthMismatch"

\* gift_nft: nft.owner = friend, then public_transfer.
gift_nft(sender, id, friend) ==
    /\ nfts[id].holder = sender
    /\ nfts' = [nfts EXCEPT ![id] = [@ EXCEPT !.owner = friend, !.holder = friend]]
    /\ tlast' = Tx("gift_nft", sender, id, friend, OK)

\* The three asserts of safe_transfer, in order.
safe_transfer_code(nft, sender, recipient) ==
    IF nft.owner # sender THEN ENotOwner
    ELSE IF recipient = ZeroAddress THEN EInvalidRecipient
    ELSE IF recipient = nft.owner THEN EInvalidRecipient
    ELSE OK

safe_transfer(sender, id, recipient) ==
    LET code == safe_transfer_code(nfts[id], sender, recipient)
    IN /\ nfts[id].holder = sender
       /\ tlast' = Tx("safe_transfer", sender, id, recipient, code)
       /\ IF code = OK
          THEN nfts' = [nfts EXCEPT ![id] = [@ EXCEPT !.owner = recipient, !.holder = recipient]]
          ELSE UNCHANGED nfts

\* transfer_with_event: emits TransferEvent {nft_id, from: nft.owner, to}, then
\* sets nft.owner and transfers.
transfer_with_event(sender, id, recipient) ==
    /\ nfts[id].holder = sender
    /\ nfts' = [nfts EXCEPT ![id] = [@ EXCEPT !.owner = recipient, !.holder = recipient]]
    /\ tlast' = [op |-> "transfer_with_event", sender |-> sender, nft |-> id,
                 recipient |-> recipient, code |-> OK,
                 event |-> [nft_id |-> id, from |-> nfts[id].owner, to |-> recipient]]

\* vector<NFT> arguments: distinct objects, in any order.
NoDup(v) == \A i, j \in 1..Len(v) : i # j => v[i] # v[j]
VectorsOf(S, n) == {v \in UNION {[1..k -> S] : k \in 0..n} : NoDup(v)}
AddressVectors(n) == UNION {[1..k -> Addresses] : k \in 0..n}

\* vector::pop_back leaves the vector without its last element.
PopBack(v) == SubSeq(v, 1, Len(v) - 1)

\* assert!(vector::length(&nfts) == vector::length(&recipients), ELengthMismatch)
batch_transfer_code(v, recipients) ==
    IF Len(v) = Len(recipients) THEN OK ELSE ELengthMismatch

\* A loop that reads the recipients front to back while it pops the NFTs
\* back to front.
batch_transfer_recipient_forward(recipients, len, i) == recipients[i + 1]

\* *vector::borrow(&recipients, len - 1 - i), with the 0-based index of Move.
batch_transfer_recipient(recipients, len, i) == recipients[(len - 1 - i) + 1]

\* The while loop of batch_transfer from iteration i on: the objects after it
\* and what is left in the vector handed to destroy_empty.
RECURSIVE batch_transfer_loop(_, _, _, _, _)
batch_transfer_loop(objects, v, recipients, len, i) ==
    IF i < len
    THEN LET nft == Last(v)
             recipient == batch_transfer_recipient(recipients, len, i)
         IN batch_transfer_loop(
                [objects EXCEPT ![nft] = [@ EXCEPT !.owner = recipient, !.holder = recipient]],
                PopBack(v), recipients, len, i + 1)
    ELSE [objects |-> objects, vec |-> v]

batch_transfer(sender, v, recipients) ==
    LET code == batch_transfer_code(v, recipients)
        done == batch_transfer_loop(nfts, v, recipients, Len(v), 0)
    IN /\ \A k \in 1..Len(v) : nfts[v[k]].holder = sender
       /\ IF code = OK
          THEN /\ nfts' = done.objects
               /\ tlast' = [op |-> "batch_transfer", sender |-> sender, nft |-> none,
                            recipient |-> none, code |-> OK,
                            vec |-> v, recipients |-> recipients, left |-> done.vec]
          ELSE /\ UNCHANGED nfts
               /\ tlast' = [op |-> "batch_transfer", sender |-> sender, nft |-> none,
                            recipient |-> none, code |-> code,
                            vec |-> v, recipients |-> recipients, left |-> v]

\* An atomic_swap that checks only the first NFT.
atomic_swap_code_first_only(nft1, nft2, user1, user2) ==
    IF nft1.owner # user1 THEN ENotOwner ELSE OK

\* assert!(nft1.owner == user1, ENotOwner); assert!(nft2.owner == user2, ENotOwner)
atomic_swap_code(nft1, nft2, user1, user2) ==
    IF nft1.owner # user1 THEN ENotOwner
    ELSE IF nft2.owner # user2 THEN ENotOwner
    ELSE OK

\* atomic_swap: both NFTs are arguments of one transaction, so its sender holds both.
atomic_swap(sender, id1, id2, user1, user2) ==
    LET code == atomic_swap_code(nfts[id1], nfts[id2], user1, user2)
    IN /\ id1 # id2
       /\ nfts[id1].holder = sender
       /\ nfts[id2].holder = sender
       /\ tlast' = [op |-> "atomic_swap", sender |-> sender, nft |-> id1, recipient |-> none,
                    code |-> code, nft2 |-> id2, user1 |-> user1, user2 |-> user2]
       /\ IF code = OK
          THEN nfts' = [nfts EXCEPT ![id1] = [@ EXCEPT !.owner = user2, !.holder = user2],
                                    ![id2] = [@ EXCEPT !.owner = user1, !.holder = user1]]
          ELSE UNCHANGED nfts

\* good_pattern: reads nft.edition, then public_transfer; nft.owner is not written.
good_pattern(sender, id, recipient) ==
    /\ nfts[id].holder = sender
    /\ nfts' = [nfts EXCEPT ![id] = [@ EXCEPT !.holder = recipient]]
    /\ tlast' = Tx("good_pattern", sender, id, recipient, OK)

\* good_conditional_transfer: public_transfer to the recipient or back to the
\* sender; nft.owner is not written.
good_conditional_transfer(sender, id, recipient, should_transfer) ==
    /\ nfts[id].holder = sender
    /\ nfts' = [nfts EXCEPT ![id] =
                  [@ EXCEPT !.holder = IF should_transfer THEN recipient ELSE sender]]
    /\ tlast' = [op |-> "good_conditional_transfer", sender |-> sender, nft |-> id,
                 recipient |-> recipient, code |-> OK, should_transfer |-> should_transfer]

\* The two asserts of safe_transfer_validated.
safe_transfer_validated_code(nft, recipient) ==
    IF recipient = ZeroAddress THEN EInvalidRecipient
    ELSE IF recipient = nft.owner THEN EInvalidRecipient
    ELSE OK

\* safe_transfer_validated: the asserts, then public_transfer; nft.owner is not written.
safe_transfer_validated(sender, id, recipient) ==
    LET code == safe_transfer_validated_code(nfts[id], recipient)
    IN /\ nfts[id].holder = sender
       /\ tlast' = Tx("safe_transfer_validated", sender, id, recipient, code)
       /\ IF code = OK
          THEN nfts' = [nfts EXCEPT ![id] = [@ EXCEPT !.holder = recipient]]
          ELSE UNCHANGED nfts

\* The addresses that mint: ADMIN of the tests.
Minters == {"A"}

MintNft ==
    /\ \E sender \in Minters, id \in NFTIds, recipient \in Addresses : mint_nft(sender, id, recipient)
    /\ UNCHANGED exceptNft

TransferNft ==
    /\ \E sender \in Addresses, id \in NFTIds, recipient \in Addresses :
            transfer_nft(sender, id, recipient)
    /\ UNCHANGED exceptNft

TransferByOwner ==
    /\ \E sender \in Addresses, id \in NFTIds, recipient \in Addresses :
            transfer_by_owner(sender, id, recipient)
    /\ UNCHANGED exceptNft

DemonstrateCompleteTransfer ==
    /\ \E sender \in Addresses, id \in NFTIds, new_owner \in Addresses :
            demonstrate_complete_transfer(sender, id, new_owner)
    /\ UNCHANGED exceptNft

BurnNft ==
    /\ \E sender \in Addresses, id \in NFTIds : burn_nft(sender, id)
    /\ UNCHANGED exceptNft

GiftNft ==
    /\ \E sender \in Addresses, id \in NFTIds, friend \in Addresses : gift_nft(sender, id, friend)
    /\ UNCHANGED exceptNft

SafeTransfer ==
    /\ \E sender \in Addresses, id \in NFTIds, recipient \in Recipients :
            safe_transfer(sender, id, recipient)
    /\ UNCHANGED exceptNft

TransferWithEvent ==
    /\ \E sender \in Addresses, id \in NFTIds, recipient \in Addresses :
            transfer_with_event(sender, id, recipient)
    /\ UNCHANGED exceptNft

BatchTransfer ==
    /\ \E sender \in Addresses, v \in VectorsOf(NFTIds, Cardinality(NFTIds)),
          recipients \in AddressVectors(Cardinality(NFTIds)) :
            batch_transfer(sender, v, recipients)
    /\ UNCHANGED exceptNft

AtomicSwap ==
    /\ \E sender \in Addresses, id1 \in NFTIds, id2 \in NFTIds,
          user1 \in Addresses, user2 \in Addresses :
            atomic_swap(sender, id1, id2, user1, user2)
    /\ UNCHANGED exceptNft

GoodPattern ==
    /\ \E sender \in Addresses, id \in NFTIds, recipient \in Addresses :
            good_pattern(sender, id, recipient)
    /\ UNCHANGED exceptNft

GoodConditionalTransfer ==
    /\ \E sender \in Addresses, id \in NFTIds, recipient \in Addresses,
          should_transfer \in BOOLEAN :
            good_conditional_transfer(sender, id, recipient, should_transfer)
    /\ UNCHANGED exceptNft

SafeTransferValidated ==
    /\ \E sender \in Addresses, id \in NFTIds, recipient \in Recipients :
            safe_transfer_validated(sender, id, recipient)
    /\ UNCHANGED exceptNft

\* mint_nft and the transfer functions the tutorial presents as correct.
PresentedNext ==
    \/ MintNft
    \/ TransferNft
    \/ GiftNft
    \/ TransferByOwner
    \/ SafeTransfer
    \/ TransferWithEvent
    \/ BatchTransfer
    \/ AtomicSwap
    \/ GoodPattern
    \/ GoodConditionalTransfer
    \/ SafeTransferValidated

NNext ==
    \/ PresentedNext
    \/ DemonstrateCompleteTransfer
    \/ BurnNft

(***************************************************************************)
(* nft_collection::batch_nft                                               *)
(***************************************************************************)

BatchAddresses == {"A", "B"}

\* The batch limit: the 100 of assert!(count <= 100, ETooManyItems), scaled.
MaxBatchSize == 2
\* The NFTs minted in one run.
MaxSupply == 3

EEmptyBatch == "EEmptyBatch"
ETooManyItems == "ETooManyItems"
\* vector::destroy_empty on a vector that still holds elements.
EDestroyNotEmpty == "EDestroyNotEmpty"

\* No transaction is being executed.
idle == [op |-> "idle"]

\* A collection that has minted supply NFTs before the run.
BatchInitFrom(supplies) ==
    /\ collection \in [total_supply : supplies]
    /\ bnfts = <<>>
    /\ blast = idle

BatchInit == BatchInitFrom({0})

\* The names batch_mint_nfts is called with.
BatchNames == {"n"}
NameVectors(n) == UNION {[1..k -> BatchNames] : k \in 0..n}
RecipientVectors(n) == UNION {[1..k -> BatchAddresses] : k \in 0..n}

\* The ids of the NFT objects an address holds.
HeldBy(a) == {id \in 1..Len(bnfts) : bnfts[id].holder = a}

destroy_empty(v) == IF v = <<>> THEN OK ELSE EDestroyNotEmpty

\* A runtime that keeps the writes made before an abort.
abort_keeps_writes(code, before, after) == after

\* A transaction that aborts commits none of its writes.
abort_or_commit(code, before, after) == IF code = OK THEN after ELSE before

\* nft.owner = recipient; transfer::public_transfer(nft, recipient)
send(objects, id, recipient) ==
    [objects EXCEPT ![id] = [@ EXCEPT !.owner = recipient, !.holder = recipient]]

\* ---- batch_mint_nfts ----

batch_mint_nfts_code(names, recipients) ==
    IF ~(Len(names) > 0) THEN EEmptyBatch
    ELSE IF Len(names) # Len(recipients) THEN ELengthMismatch
    ELSE IF ~(Len(names) <= MaxBatchSize) THEN ETooManyItems
    ELSE OK

\* A serial number that does not move within a batch.
batch_mint_nfts_serial_number_fixed(total_supply, i) == total_supply

\* serial_number: collection.total_supply + i
batch_mint_nfts_serial_number(total_supply, i) == total_supply + i

RECURSIVE batch_mint_nfts_loop(_, _, _, _, _, _)
batch_mint_nfts_loop(objects, names, recipients, total_supply, count, i) ==
    IF i < count
    THEN LET name_bytes == Last(names)
             recipient == Last(recipients)
             nft == [name |-> name_bytes,
                     serial_number |-> batch_mint_nfts_serial_number(total_supply, i),
                     owner |-> recipient, holder |-> recipient]
         IN batch_mint_nfts_loop(Append(objects, nft), PopBack(names), PopBack(recipients),
                                 total_supply, count, i + 1)
    ELSE [objects |-> objects, names |-> names, recipients |-> recipients]

batch_mint_nfts(sender, names, recipients) ==
    LET count == Len(names)
        checks == batch_mint_nfts_code(names, recipients)
        done == batch_mint_nfts_loop(bnfts, names, recipients, collection.total_supply, count, 0)
        code == IF checks # OK THEN checks
                ELSE IF destroy_empty(done.names) # OK THEN EDestroyNotEmpty
                ELSE destroy_empty(done.recipients)
    IN /\ code = OK => Len(bnfts) + count <= MaxSupply
       /\ bnfts' = abort_or_commit(code, bnfts, IF checks = OK THEN done.objects ELSE bnfts)
       /\ collection' = abort_or_commit(code, collection,
                            IF code = OK
                            THEN [collection EXCEPT !.total_supply = @ + count]
                            ELSE collection)
       /\ blast' = [op |-> "batch_mint_nfts", sender |-> sender, code |-> code,
                    names |-> names, recipients |-> recipients,
                    event |-> IF code = OK THEN [count |-> count, creator |-> sender] ELSE none]

\* ---- batch_transfer_to_one ----

RECURSIVE batch_transfer_to_one_loop(_, _, _, _, _, _)
batch_transfer_to_one_loop(objects, v, sender, recipient, count, i) ==
    IF i < count
    THEN LET nft == Last(v)
         IN IF objects[nft].owner # sender
            THEN [objects |-> objects, vec |-> PopBack(v), code |-> ENotOwner]
            ELSE batch_transfer_to_one_loop(send(objects, nft, recipient), PopBack(v),
                                            sender, recipient, count, i + 1)
    ELSE [objects |-> objects, vec |-> v, code |-> destroy_empty(v)]

batch_transfer_to_one_code(v) ==
    IF ~(Len(v) > 0) THEN EEmptyBatch
    ELSE IF ~(Len(v) <= MaxBatchSize) THEN ETooManyItems
    ELSE OK

batch_transfer_to_one(sender, v, recipient) ==
    LET count == Len(v)
        checks == batch_transfer_to_one_code(v)
        done == batch_transfer_to_one_loop(bnfts, v, sender, recipient, count, 0)
        code == IF checks # OK THEN checks ELSE done.code
    IN /\ \A k \in 1..Len(v) : bnfts[v[k]].holder = sender
       /\ bnfts' = abort_or_commit(code, bnfts, IF checks = OK THEN done.objects ELSE bnfts)
       /\ UNCHANGED collection
       /\ blast' = [op |-> "batch_transfer_to_one", sender |-> sender, code |-> code,
                    vec |-> v, recipient |-> recipient,
                    event |-> IF code = OK
                              THEN [from |-> sender, to |-> recipient, count |-> count]
                              ELSE none]

\* ---- batch_transfer_to_many ----

\* A loop that reads the recipients front to back while it pops the NFTs
\* back to front.
batch_transfer_to_many_recipient_forward(recipients, count, i) == recipients[i + 1]

\* *vector::borrow(&recipients, count - 1 - i), with the 0-based index of Move.
batch_transfer_to_many_recipient(recipients, count, i) == recipients[(count - 1 - i) + 1]

RECURSIVE batch_transfer_to_many_loop(_, _, _, _, _, _)
batch_transfer_to_many_loop(objects, v, sender, recipients, count, i) ==
    IF i < count
    THEN LET nft == Last(v)
             recipient == batch_transfer_to_many_recipient(recipients, count, i)
         IN IF objects[nft].owner # sender
            THEN [objects |-> objects, vec |-> PopBack(v), code |-> ENotOwner]
            ELSE batch_transfer_to_many_loop(send(objects, nft, recipient), PopBack(v),
                                             sender, recipients, count, i + 1)
    ELSE [objects |-> objects, vec |-> v, code |-> destroy_empty(v)]

batch_transfer_to_many_code(v, recipients) ==
    IF ~(Len(v) > 0) THEN EEmptyBatch
    ELSE IF Len(v) # Len(recipients) THEN ELengthMismatch
    ELSE IF ~(Len(v) <= MaxBatchSize) THEN ETooManyItems
    ELSE OK

batch_transfer_to_many(sender, v, recipients) ==
    LET count == Len(v)
        checks == batch_transfer_to_many_code(v, recipients)
        done == batch_transfer_to_many_loop(bnfts, v, sender, recipients, count, 0)
        code == IF checks # OK THEN checks ELSE done.code
    IN /\ \A k \in 1..Len(v) : bnfts[v[k]].holder = sender
       /\ bnfts' = abort_or_commit(code, bnfts, IF checks = OK THEN done.objects ELSE bnfts)
       /\ UNCHANGED collection
       /\ blast' = [op |-> "batch_transfer_to_many", sender |-> sender, code |-> code,
                    vec |-> v, recipients |-> recipients,
                    left |-> IF checks = OK THEN done.vec ELSE v]

\* ---- batch_burn_nfts ----

\* The object after object::delete(id): nobody holds it, nobody owns it.
deleted(nft) == [nft EXCEPT !.owner = none, !.holder = "burned"]

RECURSIVE batch_burn_nfts_loop(_, _, _, _, _)
batch_burn_nfts_loop(objects, v, sender, count, i) ==
    IF i < count
    THEN LET nft == Last(v)
         IN IF objects[nft].owner # sender
            THEN [objects |-> objects, vec |-> PopBack(v), code |-> ENotOwner]
            ELSE batch_burn_nfts_loop([objects EXCEPT ![nft] = deleted(@)], PopBack(v),
                                      sender, count, i + 1)
    ELSE [objects |-> objects, vec |-> v, code |-> destroy_empty(v)]

\* A batch_burn_nfts without the limit on the batch size.
batch_burn_nfts_code_unlimited(v) ==
    IF ~(Len(v) > 0) THEN EEmptyBatch ELSE OK

batch_burn_nfts_code(v) ==
    IF ~(Len(v) > 0) THEN EEmptyBatch
    ELSE IF ~(Len(v) <= MaxBatchSize) THEN ETooManyItems
    ELSE OK

batch_burn_nfts(sender, v) ==
    LET count == Len(v)
        checks == batch_burn_nfts_code(v)
        done == batch_burn_nfts_loop(bnfts, v, sender, count, 0)
        code == IF checks # OK THEN checks ELSE done.code
    IN /\ \A k \in 1..Len(v) : bnfts[v[k]].holder = sender
       /\ bnfts' = abort_or_commit(code, bnfts, IF checks = OK THEN done.objects ELSE bnfts)
       /\ UNCHANGED collection
       /\ blast' = [op |-> "batch_burn_nfts", sender |-> sender, code |-> code, vec |-> v,
                    event |-> IF code = OK THEN [owner |-> sender, count |-> count] ELSE none]

\* ---- batch_transfer_filtered ----

\* A filter that leaves out max_serial.
batch_transfer_filtered_matches_below(nft, min_serial, max_serial) ==
    nft.serial_number >= min_serial /\ nft.serial_number < max_serial

\* nft.serial_number >= min_serial && nft.serial_number <= max_serial
batch_transfer_filtered_matches(nft, min_serial, max_serial) ==
    nft.serial_number >= min_serial /\ nft.serial_number <= max_serial

RECURSIVE batch_transfer_filtered_loop(_, _, _, _, _, _, _, _)
batch_transfer_filtered_loop(objects, v, sender, min_serial, max_serial, recipient, transferred, returned) ==
    IF Len(v) > 0
    THEN LET nft == Last(v)
         IN IF objects[nft].owner # sender
            THEN [objects |-> objects, vec |-> PopBack(v), code |-> ENotOwner,
                  transferred |-> transferred, returned |-> returned]
            ELSE IF batch_transfer_filtered_matches(objects[nft], min_serial, max_serial)
                 THEN batch_transfer_filtered_loop(send(objects, nft, recipient), PopBack(v),
                          sender, min_serial, max_serial, recipient, transferred + 1, returned)
                 ELSE batch_transfer_filtered_loop(send(objects, nft, sender), PopBack(v),
                          sender, min_serial, max_serial, recipient, transferred, returned + 1)
    ELSE [objects |-> objects, vec |-> v, code |-> destroy_empty(v),
          transferred |-> transferred, returned |-> returned]

batch_transfer_filtered_code(v) ==
    IF ~(Len(v) <= MaxBatchSize) THEN ETooManyItems ELSE OK

batch_transfer_filtered(sender, v, min_serial, max_serial, recipient) ==
    LET checks == batch_transfer_filtered_code(v)
        done == batch_transfer_filtered_loop(bnfts, v, sender, min_serial, max_serial,
                                             recipient, 0, 0)
        code == IF checks # OK THEN checks ELSE done.code
    IN /\ \A k \in 1..Len(v) : bnfts[v[k]].holder = sender
       /\ bnfts' = abort_or_commit(code, bnfts, IF checks = OK THEN done.objects ELSE bnfts)
       /\ UNCHANGED collection
       /\ blast' = [op |-> "batch_transfer_filtered", sender |-> sender, code |-> code,
                    vec |-> v, recipient |-> recipient,
                    min_serial |-> min_serial, max_serial |-> max_serial,
                    left |-> IF checks = OK THEN done.vec ELSE v,
                    event |-> IF code = OK
                              THEN [from |-> sender, to |-> recipient,
                                    transferred |-> done.transferred,
                                    returned |-> done.returned]
                              ELSE none]

\* ---- batch_transfer_chunk ----

RECURSIVE batch_transfer_chunk_loop(_, _, _, _, _, _)
batch_transfer_chunk_loop(objects, v, sender, recipient, to_process, processed) ==
    IF processed < to_process
    THEN LET nft == Last(v)
         IN IF objects[nft].owner # sender
            THEN [objects |-> objects, vec |-> PopBack(v), code |-> ENotOwner]
            ELSE batch_transfer_chunk_loop(send(objects, nft, recipient), PopBack(v),
                                           sender, recipient, to_process, processed + 1)
    ELSE [objects |-> objects, vec |-> v, code |-> OK]

\* The second loop: pop_back from nfts, push_back to remaining.
RECURSIVE batch_transfer_chunk_keep(_, _)
batch_transfer_chunk_keep(v, remaining) ==
    IF Len(v) > 0
    THEN batch_transfer_chunk_keep(PopBack(v), Append(remaining, Last(v)))
    ELSE [vec |-> v, remaining |-> remaining]

\* A chunk that is always the whole vector.
batch_transfer_chunk_to_process_all(v, chunk_size) == Len(v)

\* let to_process = if (chunk_size < total) { chunk_size } else { total }
batch_transfer_chunk_to_process(v, chunk_size) ==
    IF chunk_size < Len(v) THEN chunk_size ELSE Len(v)

batch_transfer_chunk_code(v, chunk_size) ==
    IF ~(chunk_size > 0) THEN EEmptyBatch
    ELSE IF ~(batch_transfer_chunk_to_process(v, chunk_size) <= MaxBatchSize) THEN ETooManyItems
    ELSE OK

\* The returned vector stays with the caller: the NFTs in it keep their holder.
batch_transfer_chunk(sender, v, recipient, chunk_size) ==
    LET to_process == batch_transfer_chunk_to_process(v, chunk_size)
        checks == batch_transfer_chunk_code(v, chunk_size)
        done == batch_transfer_chunk_loop(bnfts, v, sender, recipient, to_process, 0)
        kept == batch_transfer_chunk_keep(done.vec, <<>>)
        code == IF checks # OK THEN checks
                ELSE IF done.code # OK THEN done.code
                ELSE destroy_empty(kept.vec)
    IN /\ \A k \in 1..Len(v) : bnfts[v[k]].holder = sender
       /\ bnfts' = abort_or_commit(code, bnfts, IF checks = OK THEN done.objects ELSE bnfts)
       /\ UNCHANGED collection
       /\ blast' = [op |-> "batch_transfer_chunk", sender |-> sender, code |-> code,
                    vec |-> v, recipient |-> recipient, chunk_size |-> chunk_size,
                    remaining |-> IF code = OK THEN kept.remaining ELSE none]

\* ---- optimized_batch_transfer ----

\* A first loop that checks nothing.
optimized_batch_transfer_verify_nothing(objects, v, sender, count, i) == OK

\* The first loop: borrow every NFT and check its owner.
RECURSIVE optimized_batch_transfer_verify(_, _, _, _, _)
optimized_batch_transfer_verify(objects, v, sender, count, i) ==
    IF i < count
    THEN IF objects[v[i + 1]].owner # sender
         THEN ENotOwner
         ELSE optimized_batch_transfer_verify(objects, v, sender, count, i + 1)
    ELSE OK

\* The result of batch_transfer_to_one and of optimized_batch_transfer on the
\* NFTs objects: the abort code and the NFTs after the call.
batch_transfer_to_one_result(objects, sender, v, recipient) ==
    LET checks == batch_transfer_to_one_code(v)
        done == batch_transfer_to_one_loop(objects, v, sender, recipient, Len(v), 0)
        code == IF checks # OK THEN checks ELSE done.code
    IN [code |-> code,
        objects |-> abort_or_commit(code, objects, IF checks = OK THEN done.objects ELSE objects)]

\* The second loop: pop and transfer until the vector is empty.
RECURSIVE optimized_batch_transfer_loop(_, _, _)
optimized_batch_transfer_loop(objects, v, recipient) ==
    IF Len(v) > 0
    THEN optimized_batch_transfer_loop(send(objects, Last(v), recipient), PopBack(v), recipient)
    ELSE [objects |-> objects, vec |-> v, code |-> destroy_empty(v)]

optimized_batch_transfer_code(v) ==
    IF ~(Len(v) <= MaxBatchSize) THEN ETooManyItems ELSE OK

optimized_batch_transfer(sender, v, recipient) ==
    LET count == Len(v)
        checks == optimized_batch_transfer_code(v)
        verified == optimized_batch_transfer_verify(bnfts, v, sender, count, 0)
        done == optimized_batch_transfer_loop(bnfts, v, recipient)
        code == IF checks # OK THEN checks
                ELSE IF verified # OK THEN verified
                ELSE done.code
    IN /\ \A k \in 1..Len(v) : bnfts[v[k]].holder = sender
       /\ bnfts' = abort_or_commit(code, bnfts, IF code = OK THEN done.objects ELSE bnfts)
       /\ UNCHANGED collection
       /\ blast' = [op |-> "optimized_batch_transfer", sender |-> sender, code |-> code,
                    vec |-> v, recipient |-> recipient]

\* ---- transactions ----

\* NFT has store: its holder can hand it over with a plain transfer
\* (transfer::public_transfer), which does not write nft.owner.
public_transfer_nft(sender, id, recipient) ==
    /\ bnfts[id].holder = sender
    /\ bnfts' = [bnfts EXCEPT ![id] = [@ EXCEPT !.holder = recipient]]
    /\ UNCHANGED collection
    /\ blast' = [op |-> "public_transfer", sender |-> sender, code |-> OK,
                 vec |-> <<id>>, recipient |-> recipient]

\* The transaction is over; the next one (every entry point above starts from
\* blast = idle) sees the committed objects.
next_tx ==
    /\ blast # idle
    /\ blast' = idle
    /\ UNCHANGED <<collection, bnfts>>
    /\ UNCHANGED exceptBatch

\* The serial bounds batch_transfer_filtered is called with.
SerialBounds == {0, 1}

BatchMintNfts ==
    /\ blast = idle
    /\ \E sender \in BatchAddresses, names \in NameVectors(MaxBatchSize + 1),
          recipients \in RecipientVectors(MaxBatchSize + 1) :
            batch_mint_nfts(sender, names, recipients)
    /\ UNCHANGED exceptBatch

BatchTransferToOne ==
    /\ blast = idle
    /\ \E sender \in BatchAddresses : \E v \in VectorsOf(HeldBy(sender), MaxBatchSize + 1),
          recipient \in BatchAddresses :
            batch_transfer_to_one(sender, v, recipient)
    /\ UNCHANGED exceptBatch

BatchTransferToMany ==
    /\ blast = idle
    /\ \E sender \in BatchAddresses : \E v \in VectorsOf(HeldBy(sender), MaxBatchSize + 1),
          recipients \in RecipientVectors(MaxBatchSize + 1) :
            batch_transfer_to_many(sender, v, recipients)
    /\ UNCHANGED exceptBatch

BatchBurnNfts ==
    /\ blast = idle
    /\ \E sender \in BatchAddresses : \E v \in VectorsOf(HeldBy(sender), MaxBatchSize + 1) :
            batch_burn_nfts(sender, v)
    /\ UNCHANGED exceptBatch

BatchTransferFiltered ==
    /\ blast = idle
    /\ \E sender \in BatchAddresses : \E v \in VectorsOf(HeldBy(sender), MaxBatchSize + 1),
          min_serial \in SerialBounds, max_serial \in SerialBounds,
          recipient \in BatchAddresses :
            batch_transfer_filtered(sender, v, min_serial, max_serial, recipient)
    /\ UNCHANGED exceptBatch

BatchTransferChunk ==
    /\ blast = idle
    /\ \E sender \in BatchAddresses : \E v \in VectorsOf(HeldBy(sender), MaxBatchSize + 1),
          recipient \in BatchAddresses, chunk_size \in 0..(MaxBatchSize + 1) :
            batch_transfer_chunk(sender, v, recipient, chunk_size)
    /\ UNCHANGED exceptBatch

OptimizedBatchTransfer ==
    /\ blast = idle
    /\ \E sender \in BatchAddresses : \E v \in VectorsOf(HeldBy(sender), MaxBatchSize + 1),
          recipient \in BatchAddresses :
            optimized_batch_transfer(sender, v, recipient)
    /\ UNCHANGED exceptBatch

PublicTransferNft ==
    /\ blast = idle
    /\ \E sender \in BatchAddresses : \E id \in HeldBy(sender), recipient \in BatchAddresses :
            public_transfer_nft(sender, id, recipient)
    /\ UNCHANGED exceptBatch

\* batch_mint_nfts with names that differ.
MintNames == {"n", "m"}

BatchMintNamedNfts ==
    /\ blast = idle
    /\ \E sender \in BatchAddresses,
          names \in UNION {[1..k -> MintNames] : k \in 0..(MaxBatchSize + 1)},
          recipients \in RecipientVectors(MaxBatchSize + 1) :
            batch_mint_nfts(sender, names, recipients)
    /\ UNCHANGED exceptBatch

MintNext ==
    \/ BatchMintNamedNfts
    \/ next_tx

BatchNext ==
    \/ BatchMintNfts
    \/ BatchTransferToOne
    \/ BatchTransferToMany
    \/ BatchBurnNfts
    \/ BatchTransferFiltered
    \/ BatchTransferChunk
    \/ OptimizedBatchTransfer
    \/ PublicTransferNft
    \/ next_tx

(***************************************************************************)
(* game::gift_system and game::trade_system                                *)
(***************************************************************************)

ENotRecipient == "ENotRecipient"
ENotTarget == "ENotTarget"
ENotProposer == "ENotProposer"
ENotGift == "ENotGift"
EIsGift == "EIsGift"

\* option::none(); option::some(x) is x itself.
option_none == "none"

\* The GameItem a gift box may contain.
GiftItem == "gift_item"

\* The gift boxes a run starts from: GiftBox values, each with its holder.
GiftBoxes ==
    [item : {option_none, GiftItem}, required_level : {0, 10}, expiry_epoch : {0, 1},
     sender : {"A"}, recipient : {"B"}, holder : {"B", "C"}]

\* The player levels open_gift_box is called with.
PlayerLevels == {0, 9, 10, 255}

\* The box after object::delete(id).
no_box == [item |-> option_none, required_level |-> 0, expiry_epoch |-> 0,
           sender |-> none, recipient |-> none, holder |-> "deleted"]

GiftInit(boxes) ==
    /\ gift \in [box : boxes, owned : {[a \in Addresses |-> {}]},
                 returned : {option_none}, epoch : {0}]
    /\ glast = [op |-> "init", sender |-> none, code |-> OK, player_level |-> 0]

\* A check that treats the expiry epoch itself as expired.
open_gift_box_is_expired_inclusive(current_epoch, expiry_epoch) ==
    current_epoch >= expiry_epoch

\* let is_expired = current_epoch > expiry_epoch
open_gift_box_is_expired(current_epoch, expiry_epoch) == current_epoch > expiry_epoch

\* transfer::public_transfer(item, recipient) on the items the addresses own.
give(own, item, recipient) == [own EXCEPT ![recipient] = @ \cup {item}]

\* open_gift_box: the box is an argument by value, so the sender holds it.
open_gift_box(sender, player_level) ==
    LET box == gift.box
        code == IF sender # box.recipient THEN ENotRecipient ELSE OK
        is_expired == open_gift_box_is_expired(gift.epoch, box.expiry_epoch)
        level_sufficient == player_level >= box.required_level
    IN /\ box.holder = sender
       /\ glast' = [op |-> "open_gift_box", sender |-> sender, code |-> code,
                    player_level |-> player_level]
       /\ IF code # OK
          THEN UNCHANGED gift
          ELSE IF is_expired
          THEN gift' = [gift EXCEPT
                          !.owned = IF box.item # option_none
                                    THEN give(@, box.item, box.sender)
                                    ELSE @,
                          !.box = no_box,
                          !.returned = option_none]
          ELSE IF ~level_sufficient
          THEN gift' = [gift EXCEPT !.box = [box EXCEPT !.holder = box.recipient],
                                    !.returned = option_none]
          ELSE gift' = [gift EXCEPT !.box = no_box, !.returned = box.item]

\* tx_context::epoch moves on.
gift_advance_epoch ==
    /\ gift.epoch < MaxEpoch
    /\ gift' = [gift EXCEPT !.epoch = @ + 1]
    /\ glast' = [op |-> "advance_epoch", sender |-> none, code |-> OK, player_level |-> 0]

OpenGiftBox ==
    /\ \E sender \in Addresses, player_level \in PlayerLevels :
            open_gift_box(sender, player_level)
    /\ UNCHANGED exceptGift

GiftAdvanceEpoch ==
    /\ gift_advance_epoch
    /\ UNCHANGED exceptGift

GiftNext ==
    \/ OpenGiftBox
    \/ GiftAdvanceEpoch

\* ---- game::trade_system ----

\* The GameItem of the proposer, and the GameItem each address can offer.
ProposerItem == "proposer_item"
OwnItem(a) == "item_of_" \o a

\* The proposals a run starts from.  accept_* is called by the target and
\* cancel_trade by the proposer, each taking the proposal by value: it is an
\* object every sender can pass.
TradeProposals ==
    {p \in [proposer : {"A", "B"}, proposer_item : {option_none, ProposerItem},
            target : Addresses, is_gift : BOOLEAN] : p.proposer # p.target}

no_proposal == [proposer |-> none, proposer_item |-> option_none, target |-> none,
                is_gift |-> FALSE, deleted |-> TRUE]

TradeInit(proposals) ==
    /\ trade \in [proposal : {[proposer |-> p.proposer, proposer_item |-> p.proposer_item,
                               target |-> p.target, is_gift |-> p.is_gift,
                               deleted |-> FALSE] : p \in proposals},
                  owned : {[a \in Addresses |-> {OwnItem(a)}]}]
    /\ plast = [op |-> "init", sender |-> none, code |-> OK, target_item |-> option_none]

accept_gift(sender) ==
    LET p == trade.proposal
        code == IF sender # p.target THEN ENotTarget
                ELSE IF ~p.is_gift THEN ENotGift
                ELSE OK
    IN /\ ~p.deleted
       /\ plast' = [op |-> "accept_gift", sender |-> sender, code |-> code,
                    target_item |-> option_none]
       /\ IF code # OK
          THEN UNCHANGED trade
          ELSE trade' = [trade EXCEPT
                           !.owned = IF p.proposer_item # option_none
                                     THEN give(@, p.proposer_item, p.target)
                                     ELSE @,
                           !.proposal = no_proposal]

\* accept_exchange: target_item is an argument by value, so the sender holds it.
accept_exchange(sender, target_item) ==
    LET p == trade.proposal
        code == IF sender # p.target THEN ENotTarget
                ELSE IF p.is_gift THEN EIsGift
                ELSE OK
        taken == [trade.owned EXCEPT ![sender] = @ \ {target_item}]
    IN /\ ~p.deleted
       /\ target_item \in trade.owned[sender]
       /\ plast' = [op |-> "accept_exchange", sender |-> sender, code |-> code,
                    target_item |-> target_item]
       /\ IF code # OK
          THEN UNCHANGED trade
          ELSE trade' = [trade EXCEPT
                           !.owned = IF p.proposer_item # option_none
                                     THEN give(give(taken, p.proposer_item, p.target),
                                               target_item, p.proposer)
                                     ELSE give(taken, target_item, p.proposer),
                           !.proposal = no_proposal]

\* A cancel_trade that any sender may call.
cancel_trade_code_anyone(p, sender) == OK

\* assert!(sender == proposer, ENotProposer)
cancel_trade_code(p, sender) == IF sender # p.proposer THEN ENotProposer ELSE OK

cancel_trade(sender) ==
    LET p == trade.proposal
        code == cancel_trade_code(p, sender)
    IN /\ ~p.deleted
       /\ plast' = [op |-> "cancel_trade", sender |-> sender, code |-> code,
                    target_item |-> option_none]
       /\ IF code # OK
          THEN UNCHANGED trade
          ELSE trade' = [trade EXCEPT
                           !.owned = IF p.proposer_item # option_none
                                     THEN give(@, p.proposer_item, p.proposer)
                                     ELSE @,
                           !.proposal = no_proposal]

AcceptGift ==
    /\ \E sender \in Addresses : accept_gift(sender)
    /\ UNCHANGED exceptTrade

AcceptExchange ==
    /\ \E sender \in Addresses : \E target_item \in trade.owned[sender] :
            accept_exchange(sender, target_item)
    /\ UNCHANGED exceptTrade

CancelTrade ==
    /\ \E sender \in Addresses : cancel_trade(sender)
    /\ UNCHANGED exceptTrade

TradeNext ==
    \/ AcceptGift
    \/ AcceptExchange
    \/ CancelTrade

(***************************************************************************)
(* good_loop (conditional-ownership-pattern-part2.md, 陷阱2)                *)
(***************************************************************************)

\* The largest input vector of good_loop.
MaxLoopItems == 3

\* The GameItems a vector can hold.
LoopItems == 1..MaxLoopItems

\* The inputs of good_loop: the vector, and the items for which process_item
\* returns Some.
LoopInit ==
    loop \in [pc : {"called"}, items : VectorsOf(LoopItems, MaxLoopItems),
              some : SUBSET LoopItems, input : {<<>>}, processed : {<<>>},
              result : {<<>>}, code : {OK}]

\* let opt = process_item(item): the Option is <<item>> for Some(item) and <<>>
\* for none.
process_item(item, some) == IF item \in some THEN <<item>> ELSE <<>>

\* while (i < vector::length(&items)) { pop_back; process_item; push_back; i = i + 1 }
RECURSIVE good_loop_while(_, _, _, _, _)
good_loop_while(items, result, processed, i, some) ==
    IF i < Len(items)
    THEN LET item == items[Len(items)]
             opt == process_item(item, some)
         IN good_loop_while(PopBack(items),
                            IF opt # <<>> THEN Append(result, opt[1]) ELSE result,
                            Append(processed, item), i + 1, some)
    ELSE [items |-> items, result |-> result, processed |-> processed]

good_loop ==
    LET end == good_loop_while(loop.items, <<>>, <<>>, 0, loop.some)
    IN /\ loop.pc = "called"
       /\ loop' = [pc |-> "done", items |-> end.items, some |-> loop.some,
                   input |-> loop.items, processed |-> end.processed,
                   result |-> end.result, code |-> destroy_empty(end.items)]

GoodLoop ==
    /\ good_loop
    /\ UNCHANGED exceptLoop

LoopNext ==
    \/ GoodLoop

(***************************************************************************)
(* game::item_crafting (borrowing-pattern-deep-dive.md)                    *)
(***************************************************************************)

CraftAddresses == {"A", "B"}

\* The number of GameItems create_item makes in a run.
MaxMaterials == 3

\* recipe.success_rate and the random_value of a call: both are u8.
SuccessRates == {0, 50, 100}
RandomValues == {0, 49, 50, 99, 100, 255}

\* The recipes a run starts from (test_crafting_success).
Recipes ==
    [result_name : {"Iron Sword"}, result_type : {1}, result_level : {1},
     result_rarity : {2}, success_rate : SuccessRates]

CraftInit(recipes) ==
    /\ craft \in [items : {<<>>}, recipe : recipes, created : {0}, upgrades : {0}]
    /\ clast = idle

\* The GameItems the sender can pass by value.
CraftHeldBy(a) == {k \in 1..Len(craft.items) : craft.items[k].holder = a}

\* create_item, followed by the transfer of the new item to the sender.
create_item(sender, name, item_type, level, rarity, owner) ==
    /\ craft.created < MaxMaterials
    /\ craft' = [craft EXCEPT
                   !.items = Append(@, [name |-> name, item_type |-> item_type,
                                        level |-> level, rarity |-> rarity,
                                        owner |-> owner, holder |-> sender]),
                   !.created = @ + 1]
    /\ clast' = [op |-> "create_item", sender |-> sender, code |-> OK]

\* let GameItem { id, .. } = material; object::delete(id)
destroyed(item) == [item EXCEPT !.holder = "deleted"]

\* A success test that also accepts random_value = success_rate.
craft_success_inclusive(random_value, recipe) == random_value <= recipe.success_rate

\* let success = random_value < recipe.success_rate
craft_success(random_value, recipe) == random_value < recipe.success_rate

\* assert!(material1.owner == sender, ENotOwner); assert!(material2.owner == sender, ENotOwner)
craft_code(sender, material1, material2) ==
    IF craft.items[material1].owner # sender THEN ENotOwner
    ELSE IF craft.items[material2].owner # sender THEN ENotOwner
    ELSE OK

\* GameItem { id: object::new(ctx), name: recipe.result_name, ..., owner: sender }
new_item(recipe, sender) ==
    [name |-> recipe.result_name, item_type |-> recipe.result_type,
     level |-> recipe.result_level, rarity |-> recipe.result_rarity,
     owner |-> sender, holder |-> sender]

\* Both materials destroyed.
without_materials(items, material1, material2) ==
    [items EXCEPT ![material1] = destroyed(@), ![material2] = destroyed(@)]

\* craft_item_destroy_on_fail: the returned Option is <<k>> for Some(the new
\* item, at place k of the items), which the sender then holds, and <<>> for none.
craft_item_destroy_on_fail(sender, material1, material2, random_value) ==
    LET code == craft_code(sender, material1, material2)
        success == craft_success(random_value, craft.recipe)
        gone == without_materials(craft.items, material1, material2)
    IN /\ clast' = [op |-> "craft_item_destroy_on_fail", sender |-> sender, code |-> code,
                    material1 |-> material1, material2 |-> material2,
                    random_value |-> random_value,
                    returned |-> IF code = OK /\ success
                                 THEN <<Len(craft.items) + 1>> ELSE <<>>]
       /\ IF code # OK
          THEN UNCHANGED craft
          ELSE IF success
          THEN craft' = [craft EXCEPT !.items = Append(gone, new_item(craft.recipe, sender))]
          ELSE craft' = [craft EXCEPT !.items = gone]

\* craft_item_with_refund
craft_item_with_refund(sender, material1, material2, random_value) ==
    LET code == craft_code(sender, material1, material2)
        success == craft_success(random_value, craft.recipe)
        gone == without_materials(craft.items, material1, material2)
    IN /\ clast' = [op |-> "craft_item_with_refund", sender |-> sender, code |-> code,
                    material1 |-> material1, material2 |-> material2,
                    random_value |-> random_value, returned |-> <<>>]
       /\ IF code # OK
          THEN UNCHANGED craft
          ELSE IF success
          THEN craft' = [craft EXCEPT !.items = Append(gone, new_item(craft.recipe, sender))]
          ELSE craft' = [craft EXCEPT
                           !.items = [@ EXCEPT ![material1].holder = sender,
                                               ![material2].holder = sender]]

\* The transaction is over.
craft_next_tx ==
    /\ clast # idle
    /\ clast' = idle
    /\ UNCHANGED craft

CreateItem ==
    /\ clast = idle
    /\ \E sender \in CraftAddresses, owner \in CraftAddresses :
            create_item(sender, "Iron", 3, 1, 1, owner)
    /\ UNCHANGED exceptCraft

CraftItemDestroyOnFail ==
    /\ clast = idle
    /\ \E sender \in CraftAddresses : \E material1 \in CraftHeldBy(sender) :
         \E material2 \in CraftHeldBy(sender) \ {material1} : \E random_value \in RandomValues :
            craft_item_destroy_on_fail(sender, material1, material2, random_value)
    /\ UNCHANGED exceptCraft

CraftItemWithRefund ==
    /\ clast = idle
    /\ \E sender \in CraftAddresses : \E material1 \in CraftHeldBy(sender) :
         \E material2 \in CraftHeldBy(sender) \ {material1} : \E random_value \in RandomValues :
            craft_item_with_refund(sender, material1, material2, random_value)
    /\ UNCHANGED exceptCraft

CraftNextTx ==
    /\ craft_next_tx
    /\ UNCHANGED exceptCraft

\* ---- upgrade_item ----

\* The largest u8: level + 1 beyond it aborts the transaction.
U8_MAX == 255

\* The number of items made for upgrading, and of upgrade_item calls, in a run.
MaxUpgradeItems == 1
MaxUpgrades == 2

\* The levels of the items made for upgrading and the random_value of a call.
ItemLevels == {1, 4, 5, 9, 10, 254, 255}
UpgradeRandomValues == {0, 19, 20, 49, 50, 79, 80, 255}

\* let success_rate = if (item.level < 5) 80 else if (item.level < 10) 50 else 20
upgrade_success_rate(level) == IF level < 5 THEN 80 ELSE IF level < 10 THEN 50 ELSE 20

\* assert!(item.owner == sender, ENotOwner), then level + 1 on the success branch.
upgrade_item_code(sender, item, random_value) ==
    IF craft.items[item].owner # sender THEN ENotOwner
    ELSE IF /\ random_value < upgrade_success_rate(craft.items[item].level)
            /\ craft.items[item].level + 1 > U8_MAX
    THEN ARITHMETIC_ERROR
    ELSE OK

\* upgrade_item: the returned Option is <<item>> for Some(the upgraded item),
\* which the sender then holds, and <<>> for none.
upgrade_item(sender, item, random_value) ==
    LET code == upgrade_item_code(sender, item, random_value)
        success == random_value < upgrade_success_rate(craft.items[item].level)
    IN /\ craft.upgrades < MaxUpgrades
       /\ clast' = [op |-> "upgrade_item", sender |-> sender, code |-> code,
                    item |-> item, random_value |-> random_value,
                    returned |-> IF code = OK /\ success THEN <<item>> ELSE <<>>]
       /\ IF code # OK
          THEN craft' = [craft EXCEPT !.upgrades = @ + 1]
          ELSE IF success
          THEN craft' = [craft EXCEPT !.items[item].level = @ + 1,
                                      !.items[item].holder = sender,
                                      !.upgrades = @ + 1]
          ELSE craft' = [craft EXCEPT !.items[item] = destroyed(@),
                                      !.upgrades = @ + 1]

CreateItemOfLevel ==
    /\ clast = idle
    /\ craft.created < MaxUpgradeItems
    /\ \E sender \in CraftAddresses, owner \in CraftAddresses, level \in ItemLevels :
            create_item(sender, "Sword", 1, level, 1, owner)
    /\ UNCHANGED exceptCraft

UpgradeItem ==
    /\ clast = idle
    /\ \E sender \in CraftAddresses : \E item \in CraftHeldBy(sender) :
         \E random_value \in UpgradeRandomValues :
            upgrade_item(sender, item, random_value)
    /\ UNCHANGED exceptCraft

UpgradeNext ==
    \/ CreateItemOfLevel
    \/ UpgradeItem
    \/ CraftNextTx

CraftNext ==
    \/ CreateItem
    \/ CraftItemDestroyOnFail
    \/ CraftItemWithRefund
    \/ CraftNextTx

(***************************************************************************)
(* wallet::digital_wallet (borrowing-pattern-deep-dive.md)                 *)
(***************************************************************************)

\* update_transaction_count is called at most this many times in a run.
MaxTransactionCount == 3

WalletNames == {"Test Wallet"}

\* No Wallet has been created.
no_wallet ==
    [owner |-> none, name |-> "", balance |-> 0, transaction_count |-> 0, holder |-> none]

WalletInit ==
    /\ wallet = no_wallet
    /\ wlast = [op |-> "init", sender |-> none, code |-> OK, ret |-> <<>>]

\* create_wallet; the caller keeps the returned Wallet.
create_wallet(sender, name) ==
    /\ wallet = no_wallet
    /\ wallet' = [owner |-> sender, name |-> name, balance |-> 0,
                  transaction_count |-> 0, holder |-> sender]
    /\ wlast' = [op |-> "create_wallet", sender |-> sender, code |-> OK, ret |-> <<>>]

\* The first version of get_wallet_info, which takes the Wallet by value and
\* does not give it back.
get_wallet_info_by_value(sender) ==
    /\ wallet.holder = sender
    /\ wallet' = [wallet EXCEPT !.holder = "moved"]
    /\ wlast' = [op |-> "get_wallet_info", sender |-> sender, code |-> OK,
                 ret |-> <<wallet.name, wallet.balance, wallet.transaction_count>>]

\* get_wallet_info(wallet: &Wallet)
get_wallet_info(sender) ==
    /\ wallet.holder = sender
    /\ wlast' = [op |-> "get_wallet_info", sender |-> sender, code |-> OK,
                 ret |-> <<wallet.name, wallet.balance, wallet.transaction_count>>]
    /\ UNCHANGED wallet

\* is_owner(wallet: &Wallet, user)
is_owner(sender, user) ==
    /\ wallet.holder = sender
    /\ wlast' = [op |-> "is_owner", sender |-> sender, code |-> OK,
                 ret |-> <<user, wallet.owner = user>>]
    /\ UNCHANGED wallet

\* get_balance(wallet: &Wallet)
get_balance(sender) ==
    /\ wallet.holder = sender
    /\ wlast' = [op |-> "get_balance", sender |-> sender, code |-> OK,
                 ret |-> <<wallet.balance>>]
    /\ UNCHANGED wallet

\* wallet.transaction_count = wallet.transaction_count + 1, on a u64
update_transaction_count_code(w) ==
    IF w.transaction_count + 1 > U64_MAX THEN ARITHMETIC_ERROR ELSE OK

update_transaction_count(sender) ==
    LET code == update_transaction_count_code(wallet)
    IN /\ wallet.holder = sender
       /\ wallet.transaction_count < MaxTransactionCount
       /\ wlast' = [op |-> "update_transaction_count", sender |-> sender, code |-> code,
                    ret |-> <<>>]
       /\ IF code # OK
          THEN UNCHANGED wallet
          ELSE wallet' = [wallet EXCEPT !.transaction_count = @ + 1]

\* wallet_operations_demo(mut wallet, ctx)
wallet_operations_demo(sender) ==
    LET has_enough == wallet.balance > 1000
        is_valid_owner == wallet.owner = sender
        update == has_enough /\ is_valid_owner
        code == IF update THEN update_transaction_count_code(wallet) ELSE OK
    IN /\ wallet.holder = sender
       /\ update => wallet.transaction_count < MaxTransactionCount
       /\ wlast' = [op |-> "wallet_operations_demo", sender |-> sender, code |-> code,
                    ret |-> <<>>]
       /\ IF code # OK
          THEN UNCHANGED wallet
          ELSE wallet' = [wallet EXCEPT
                            !.transaction_count = IF update THEN @ + 1 ELSE @,
                            !.holder = sender]

\* transfer::public_transfer(wallet, recipient)
transfer_wallet(sender, recipient) ==
    /\ wallet.holder = sender
    /\ wallet' = [wallet EXCEPT !.holder = recipient]
    /\ wlast' = [op |-> "public_transfer", sender |-> sender, code |-> OK,
                 ret |-> <<recipient>>]

CreateWallet ==
    /\ \E sender \in Addresses, name \in WalletNames : create_wallet(sender, name)
    /\ UNCHANGED exceptWallet

GetWalletInfo ==
    /\ \E sender \in Addresses : get_wallet_info(sender)
    /\ UNCHANGED exceptWallet

IsOwner ==
    /\ \E sender \in Addresses, user \in Addresses : is_owner(sender, user)
    /\ UNCHANGED exceptWallet

GetBalance ==
    /\ \E sender \in Addresses : get_balance(sender)
    /\ UNCHANGED exceptWallet

UpdateTransactionCount ==
    /\ \E sender \in Addresses : update_transaction_count(sender)
    /\ UNCHANGED exceptWallet

WalletOperationsDemo ==
    /\ \E sender \in Addresses : wallet_operations_demo(sender)
    /\ UNCHANGED exceptWallet

TransferWallet ==
    /\ \E sender \in Addresses, recipient \in Addresses : transfer_wallet(sender, recipient)
    /\ UNCHANGED exceptWallet

WalletNext ==
    \/ CreateWallet
    \/ GetWalletInfo
    \/ IsOwner
    \/ GetBalance
    \/ UpdateTransactionCount
    \/ WalletOperationsDemo
    \/ TransferWallet

(***************************************************************************)
(* Specifications: one per program                                         *)
(***************************************************************************)

\* The programs do not interact: each specification runs one of them and
\* leaves the others in their initial state.
\* The gift box and the trade proposal the other programs' runs start with.
OneGiftBox ==
    {[item |-> GiftItem, required_level |-> 10, expiry_epoch |-> 1,
      sender |-> "A", recipient |-> "B", holder |-> "B"]}
OneProposal ==
    {[proposer |-> "A", proposer_item |-> ProposerItem, target |-> "B", is_gift |-> FALSE]}

OneLoopInput ==
    loop = [pc |-> "called", items |-> <<1>>, some |-> {1}, input |-> <<>>,
            processed |-> <<>>, result |-> <<>>, code |-> OK]
OneRecipe == {r \in Recipes : r.success_rate = 50}

\* The state every program other than the one that runs stays in.
Others == QInit /\ BInit /\ NInit /\ BatchInit /\ WalletInit
Objects == GiftInit(OneGiftBox) /\ TradeInit(OneProposal) /\ OneLoopInput /\ CraftInit(OneRecipe)

Init == Others /\ AInit({250}) /\ Objects

SpecQuery == Init /\ [][QNext]_vars

SpecBcs == Init /\ [][BNext]_vars

AuctionInit == Others /\ AInit(FeeRates) /\ Objects
SpecAuction == AuctionInit /\ [][ANext]_vars

SpecNft == Init /\ [][NNext]_vars

SpecNftPresented == Init /\ [][PresentedNext]_vars

SpecBatch == Init /\ [][BatchNext]_vars

\* The two batch transfers to several recipients: a run calls either
\* digital_nft (mint_nft, batch_transfer) or batch_nft (batch_mint_nfts,
\* batch_transfer_to_many, plain transfers), never both.
BatchTransfersNext ==
    \/ BatchInit /\ MintNft
    \/ BatchInit /\ BatchTransfer
    \/ NInit /\ BatchMintNfts
    \/ NInit /\ BatchTransferToMany
    \/ NInit /\ PublicTransferNft
    \/ NInit /\ next_tx

SpecBatchTransfers == Init /\ [][BatchTransfersNext]_vars

GiftSystemInit ==
    /\ Others /\ AInit({250}) /\ GiftInit(GiftBoxes) /\ TradeInit(OneProposal)
    /\ OneLoopInput /\ CraftInit(OneRecipe)
SpecGift == GiftSystemInit /\ [][GiftNext]_vars

TradeSystemInit ==
    /\ Others /\ AInit({250}) /\ GiftInit(OneGiftBox) /\ TradeInit(TradeProposals)
    /\ OneLoopInput /\ CraftInit(OneRecipe)
SpecTrade == TradeSystemInit /\ [][TradeNext]_vars

GoodLoopInit ==
    /\ Others /\ AInit({250}) /\ GiftInit(OneGiftBox) /\ TradeInit(OneProposal)
    /\ LoopInit /\ CraftInit(OneRecipe)
SpecLoop == GoodLoopInit /\ [][LoopNext]_vars

CraftingInit ==
    /\ Others /\ AInit({250}) /\ GiftInit(OneGiftBox) /\ TradeInit(OneProposal)
    /\ OneLoopInput /\ CraftInit(Recipes)
SpecCraft == CraftingInit /\ [][CraftNext]_vars
SpecUpgrade == CraftingInit /\ [][UpgradeNext]_vars

SpecWallet == Init /\ [][WalletNext]_vars

\* total_supply before the first batch_mint_nfts of the run.
InitialSupplies == {0, 1}

MintInit ==
    /\ QInit /\ BInit /\ NInit /\ WalletInit /\ AInit({250}) /\ Objects
    /\ BatchInitFrom(InitialSupplies)
SpecMint == MintInit /\ [][MintNext]_vars

(***************************************************************************)
(* Properties of the object query demo                                     *)
(***************************************************************************)

\* A getObject call whose queryObject ended in the catch block.
Failed(call) == call.thrown # null \/ call.outcome.kind = "Error"

\* The error the catch block of that call received.
CaughtError(call) == IF call.thrown # null THEN call.thrown ELSE call.outcome

\* The messages written with console.error, in order.
ErrorLines == SelectSeq(console, LAMBDA l : l.stream = "error")

\* The getObject calls whose queryObject has finished.
FinishedCalls == SubSeq(getObjectLog, 1, Len(qret))

\* C1: queryObject never throws.  Every finished call returned: the object
\* info client.getObject resolved with when nothing threw inside the try
\* block, and null otherwise, with the message of the caught error written to
\* console.error.
C1_QueryObjectNeverThrows ==
    /\ \A k \in 1..Len(qret) :
        /\ qret[k].kind = "return"
        /\ IF Failed(getObjectLog[k])
           THEN qret[k].value = null
           ELSE qret[k].value = getObjectLog[k].outcome
    /\ LET failures == SelectSeq(FinishedCalls, Failed)
       IN /\ Len(ErrorLines) = Len(failures)
          /\ \A j \in 1..Len(failures) : ErrorLines[j].text = CaughtError(failures[j]).message

\* Both outcomes happened in one run: a failed query returned null, a
\* successful one returned its object info.
C1_Witness ==
    /\ Len(qret) = 2
    /\ qret[1].value = null
    /\ qret[2].value.kind = "info"

\* C2: demonstrateObjectQueries issues exactly one getObject call per entry
\* of exampleObjects, in list order, each one only after the previous call has
\* settled; no call is retried, and a failed query does not stop the loop.
C2_OneSequentialQueryPerEntry ==
    /\ Len(getObjectLog) <= Len(exampleObjects)
    /\ \A k \in 1..Len(getObjectLog) :
        /\ getObjectLog[k].id = exampleObjects[k]
        /\ k < Len(getObjectLog) => getObjectLog[k].outcome # pending
    /\ dpc # "rejected"
    /\ dpc = "loop" => di = Len(qret) + 1
    /\ dpc = "done" => Len(qret) = Len(exampleObjects) /\ Len(getObjectLog) = Len(exampleObjects)

\* The loop finished although the query of the first entry failed.
C2_Witness ==
    /\ dpc = "done"
    /\ Len(getObjectLog) = 2
    /\ getObjectLog[1].outcome.kind = "Error"

(***************************************************************************)
(* Properties of the BCS demo                                              *)
(***************************************************************************)

\* The library call with index j has not returned.
NotPerformed(j) ==
    IF Calls[j].op = "serialize"
    THEN bvalue[Calls[j].slot] = unset
    ELSE deserialized[Calls[j].slot] = unset

\* C3: the seven demonstration steps run strictly in order 1..7; once a library
\* call of step k has thrown, no later call and no later step runs, the
\* completion line is not printed, and the exception does not leave the script:
\* the top-level catch takes it.
C3_StepsInOrderAndCaught ==
    /\ Len(bsteps) <= 7
    /\ \A i \in 1..Len(bsteps) : bsteps[i] = i
    /\ ~bescaped
    /\ (bexc # null \/ bcaught # null) =>
        /\ ~bdone
        /\ bpc <= Len(Calls)
        /\ Last(bsteps) = Calls[bpc].step
        /\ \A j \in bpc..Len(Calls) : NotPerformed(j)
    /\ bdone => Len(bsteps) = 7 /\ bcaught = null /\ bexc = null

\* A call of step 4 threw after steps 1 to 3 had run, and the catch logged it.
C3_Witness ==
    /\ bcaught # null
    /\ bexc = null
    /\ Calls[bpc].step = 4
    /\ deserialized["addressBytes"] # unset

\* BigInt(s) of a parsed u64.
RestoreU64(v) == BigIntV(FromDecimal(v.s))

\* The parsed value converted back to the form the script constructed: u64
\* strings to BigInt, the $kind of an enum removed.
Restore(type, v) ==
    CASE type = "u64" -> RestoreU64(v)
      [] type = "string" -> v
      [] type = "bytes32" -> v
      [] type = "vector<u64>" -> ArrayV([i \in 1..Len(v.a) |-> RestoreU64(v.a[i])])
      [] type = "Coin" -> ObjectV([value |-> RestoreU64(v.f["value"]), coinType |-> v.f["coinType"]])
      [] type = "SimpleTransaction" ->
            ObjectV([sender |-> v.f["sender"], recipient |-> v.f["recipient"],
                     amount |-> RestoreU64(v.f["amount"]), gas |-> RestoreU64(v.f["gas"])])
      [] type = "Status" ->
            ObjectV([key \in (DOMAIN v.f) \ {"$kind"} |->
                        IF key = "Pending" THEN RestoreU64(v.f[key]) ELSE v.f[key]])

Committed(op) == last'.op = op /\ last'.code = OK

\* All SUI of the model: coins of the addresses, deposits, platform balance.
RECURSIVE Deposits(_)
Deposits(as) == IF as = <<>> THEN 0 ELSE Head(as).bid_deposit + Deposits(Tail(as))

TotalSui(f, as, mkt) ==
    f["A"] + f["B"] + f["C"] + Deposits(as) + mkt.platform_balance

\* The places that hold the AuctionNFT: owning addresses and auctions.
HolderCount(nft) ==
    Cardinality({a \in Addresses : nft \in owned[a]})
        + Cardinality({i \in 1..Len(auctions) : auctions[i].nft = nft})

\* C5: a finalize_auction that commits on an auction with a highest bidder
\* adds fee = current_bid * platform_fee_rate / 10000 to the platform balance,
\* pays the seller exactly current_bid - fee in one coin and leaves bid_deposit
\* at zero; no SUI is created or lost.
C5_FinalizeSplitsTheWinningBid ==
    [][ (Committed("finalize_auction") /\ auctions[last'.auction].highest_bidder # none) =>
          LET a == last'.auction
              auction == auctions[a]
              fee == (auction.current_bid * market.platform_fee_rate) \div 10000
          IN /\ market'.platform_balance = market.platform_balance + fee
             /\ funds' = [funds EXCEPT ![auction.seller] = @ + (auction.current_bid - fee)]
             /\ last'.coin_to = auction.seller
             /\ last'.coin_value = auction.current_bid - fee
             /\ auctions'[a].bid_deposit = 0
             /\ (market'.platform_balance - market.platform_balance)
                    + (funds'[auction.seller] - funds[auction.seller]) = auction.current_bid
             /\ TotalSui(funds', auctions', market') = TotalSui(funds, auctions, market)
      ]_vars

\* An auction was finalized with a winning bid and a non-zero platform fee.
C5_Witness ==
    /\ last.op = "finalize_auction"
    /\ last.code = OK
    /\ auctions[last.auction].highest_bidder # none
    /\ market.platform_balance > 0
    /\ last.coin_value > 0

\* C6: the auctioned NFT always has exactly one holder.  The auction holds it
\* while it is active; a finalize with a bid hands it to the highest bidder, a
\* finalize without a bid and a cancel hand it back to the seller.
C6_NftHeldByExactlyOneParty ==
    /\ [](\A nft \in AuctionNFTs : HolderCount(nft) = 1)
    /\ [](\A i \in 1..Len(auctions) : auctions[i].is_active <=> auctions[i].nft # none)
    /\ [][ (Committed("finalize_auction") \/ Committed("cancel_auction")) =>
              LET auction == auctions[last'.auction]
                  to == IF last'.op = "finalize_auction" /\ auction.highest_bidder # none
                        THEN auction.highest_bidder
                        ELSE auction.seller
              IN /\ owned' = [owned EXCEPT ![to] = @ \cup {auction.nft}]
                 /\ auctions'[last'.auction].nft = none
       ]_vars

\* The auction ended with a bid and its NFT is with the highest bidder, who is
\* not the seller.
C6_Witness ==
    \E i \in 1..Len(auctions) :
        /\ ~auctions[i].is_active
        /\ auctions[i].highest_bidder \notin {none, auctions[i].seller}
        /\ owned[auctions[i].highest_bidder] = AuctionNFTs

\* C7: when place_bid accepts a bid on an auction that has a highest bidder,
\* that bidder receives one coin of exactly the amount of their own bid (the
\* current_bid before the call), bid_deposit then holds exactly the new bid and
\* highest_bidder is the new bidder.
C7_PreviousBidderIsRefunded ==
    [][ (Committed("place_bid") /\ auctions[last'.auction].highest_bidder # none) =>
          LET a == last'.auction
              auction == auctions[a]
              previous == auction.highest_bidder
              paid == [funds EXCEPT ![last'.sender] = @ - last'.amount]
          IN /\ last'.coin_to = previous
             /\ last'.coin_value = auction.current_bid
             /\ funds' = [paid EXCEPT ![previous] = @ + auction.current_bid]
             /\ auctions'[a].bid_deposit = last'.amount
             /\ auctions'[a].current_bid = last'.amount
             /\ auctions'[a].highest_bidder = last'.sender
      ]_vars

\* A bidder was outbid by another address and got a coin back.
C7_Witness ==
    /\ last.op = "place_bid"
    /\ last.code = OK
    /\ last.coin_to \notin {none, last.sender}
    /\ last.coin_value > 0

\* C8: cancel_auction commits exactly when the sender is the seller, the
\* auction is active and has no bid; it then returns the NFT to the seller and
\* marks the auction inactive.  Otherwise it aborts with ENotSeller,
\* EAuctionEnded or (a bid exists) EAuctionActive and changes nothing.
C8_CancelOnlyBySellerWithoutBids ==
    [][ last'.op = "cancel_auction" =>
          LET a == last'.auction
              auction == auctions[a]
          IN IF last'.sender = auction.seller /\ auction.is_active /\ auction.highest_bidder = none
             THEN /\ last'.code = OK
                  /\ ~auctions'[a].is_active
                  /\ auctions'[a].nft = none
                  /\ auction.nft \in owned'[auction.seller]
                  /\ auctions'[a].bid_deposit = auction.bid_deposit
                  /\ UNCHANGED <<funds, market>>
             ELSE /\ last'.code \in {ENotSeller, EAuctionEnded, EAuctionActive}
                  /\ last'.code = ENotSeller <=> last'.sender # auction.seller
                  /\ last'.code = EAuctionActive => auction.highest_bidder # none
                  /\ UNCHANGED <<auctions, owned, funds, market>>
      ]_vars

\* The seller cancelled an auction and holds the NFT again.
C8_Witness ==
    /\ last.op = "cancel_auction"
    /\ last.code = OK
    /\ auctions[last.auction].seller = last.sender
    /\ owned[last.sender] = AuctionNFTs

\* C9: every id in market.active_auctions is the id of an active auction, so
\* the second value of get_market_stats is the number of active auctions.
C9_ActiveAuctionsAreActive ==
    /\ \A k \in 1..Len(market.active_auctions) : auctions[market.active_auctions[k]].is_active
    /\ get_market_stats(market)[2] = Cardinality({i \in 1..Len(auctions) : auctions[i].is_active})

(***************************************************************************)
(* Properties of nft_market::digital_nft                                   *)
(***************************************************************************)

\* C10: transfer_by_owner called by a sender that is not nft.owner aborts with
\* ENotOwner and leaves the NFT with its holder and its owner field as it was;
\* called by the owner it commits and the NFT is held by the recipient.
C10_OnlyOwnerTransfers ==
    [][ tlast'.op = "transfer_by_owner" =>
          LET id == tlast'.nft
          IN IF tlast'.sender # nfts[id].owner
             THEN /\ tlast'.code = ENotOwner
                  /\ nfts'[id].holder = nfts[id].holder
                  /\ nfts'[id].owner = nfts[id].owner
                  /\ nfts' = nfts
             ELSE /\ tlast'.code = OK
                  /\ nfts'[id].holder = tlast'.recipient
                  /\ \A other \in NFTIds \ {id} : nfts'[other] = nfts[other]
      ]_vars

\* A holder that is not the owner of record tried to transfer and was refused.
C10_Witness ==
    /\ tlast.op = "transfer_by_owner"
    /\ tlast.code = ENotOwner
    /\ nfts[tlast.nft].holder = tlast.sender
    /\ nfts[tlast.nft].owner # tlast.sender

\* C11: after any sequence of mint_nft and of the transfer functions the
\* tutorial presents as correct, get_owner(nft) (the owner field) is the
\* address that holds the NFT.
C11_OwnerFieldIsTheHolder ==
    \A id \in NFTIds :
        nfts[id].holder \in Addresses => nfts[id].owner = nfts[id].holder

\* C13: atomic_swap with nft1.owner = user1 and nft2.owner = user2 commits with
\* nft1 held and owned by user2 and nft2 held and owned by user1; otherwise it
\* aborts with ENotOwner and no NFT changes.  No step moves exactly one of the two.
C13_AtomicSwapIsAllOrNothing ==
    [][ tlast'.op = "atomic_swap" =>
          LET id1 == tlast'.nft
              id2 == tlast'.nft2
              user1 == tlast'.user1
              user2 == tlast'.user2
          IN /\ IF nfts[id1].owner = user1 /\ nfts[id2].owner = user2
                THEN /\ tlast'.code = OK
                     /\ nfts'[id1].holder = user2 /\ nfts'[id1].owner = user2
                     /\ nfts'[id2].holder = user1 /\ nfts'[id2].owner = user1
                ELSE /\ tlast'.code = ENotOwner
                     /\ nfts' = nfts
             /\ (nfts'[id1] # nfts[id1]) <=> (nfts'[id2] # nfts[id2])
             /\ \A other \in NFTIds \ {id1, id2} : nfts'[other] = nfts[other]
      ]_vars

\* A swap between two different users went through.
C13_Witness ==
    /\ tlast.op = "atomic_swap"
    /\ tlast.code = OK
    /\ tlast.user1 # tlast.user2
    /\ nfts[tlast.nft].holder = tlast.user2
    /\ nfts[tlast.nft2].holder = tlast.user1

(***************************************************************************)
(* Properties of nft_collection::batch_nft                                 *)
(***************************************************************************)

\* The NFTs of a vector, as a set.
Range(v) == {v[k] : k \in 1..Len(v)}

\* C12 as stated: for vectors of equal length, batch_transfer and
\* batch_transfer_to_many transfer the NFT at index k to recipients[k] for
\* every k and leave the NFT vector empty; for different lengths they abort
\* with ELengthMismatch and transfer nothing.
C12_EqualLengthsAlwaysTransfer ==
    [][ /\ tlast'.op = "batch_transfer" =>
             IF Len(tlast'.vec) = Len(tlast'.recipients)
             THEN /\ tlast'.code = OK
                  /\ \A k \in 1..Len(tlast'.vec) :
                        /\ nfts'[tlast'.vec[k]].holder = tlast'.recipients[k]
                        /\ nfts'[tlast'.vec[k]].owner = tlast'.recipients[k]
                  /\ tlast'.left = <<>>
             ELSE /\ tlast'.code = ELengthMismatch
                  /\ nfts' = nfts
        /\ blast'.op = "batch_transfer_to_many" =>
             IF Len(blast'.vec) = Len(blast'.recipients)
             THEN /\ blast'.code = OK
                  /\ \A k \in 1..Len(blast'.vec) :
                        /\ bnfts'[blast'.vec[k]].holder = blast'.recipients[k]
                        /\ bnfts'[blast'.vec[k]].owner = blast'.recipients[k]
                  /\ blast'.left = <<>>
             ELSE /\ blast'.code = ELengthMismatch
                  /\ bnfts' = bnfts
      ]_vars

\* C12, amended: batch_transfer pairs by index for every pair of vectors of
\* equal length and aborts with ELengthMismatch otherwise.
\* batch_transfer_to_many first refuses an empty NFT vector (EEmptyBatch), then
\* different lengths (ELengthMismatch), then more NFTs than the batch limit
\* (ETooManyItems), then an NFT whose owner field is not the sender (ENotOwner),
\* each time transferring nothing; otherwise it pairs by index and leaves the
\* NFT vector empty.
C12_BatchTransferPairsByIndex ==
    [][ /\ tlast'.op = "batch_transfer" =>
             IF Len(tlast'.vec) = Len(tlast'.recipients)
             THEN /\ tlast'.code = OK
                  /\ \A k \in 1..Len(tlast'.vec) :
                        /\ nfts'[tlast'.vec[k]].holder = tlast'.recipients[k]
                        /\ nfts'[tlast'.vec[k]].owner = tlast'.recipients[k]
                  /\ \A id \in NFTIds \ Range(tlast'.vec) : nfts'[id] = nfts[id]
                  /\ tlast'.left = <<>>
             ELSE /\ tlast'.code = ELengthMismatch
                  /\ nfts' = nfts
        /\ blast'.op = "batch_transfer_to_many" =>
             LET v == blast'.vec
                 recipients == blast'.recipients
                 expected ==
                     IF Len(v) = 0 THEN EEmptyBatch
                     ELSE IF Len(v) # Len(recipients) THEN ELengthMismatch
                     ELSE IF Len(v) > MaxBatchSize THEN ETooManyItems
                     ELSE IF \E k \in 1..Len(v) : bnfts[v[k]].owner # blast'.sender
                          THEN ENotOwner
                          ELSE OK
             IN /\ blast'.code = expected
                /\ IF expected = OK
                   THEN /\ \A k \in 1..Len(v) :
                             /\ bnfts'[v[k]].holder = recipients[k]
                             /\ bnfts'[v[k]].owner = recipients[k]
                        /\ \A id \in (1..Len(bnfts)) \ Range(v) : bnfts'[id] = bnfts[id]
                        /\ Len(bnfts') = Len(bnfts)
                        /\ blast'.left = <<>>
                   ELSE bnfts' = bnfts
      ]_vars

\* batch_transfer_to_many sent two NFTs to two different recipients.
C12_Witness ==
    /\ blast.op = "batch_transfer_to_many"
    /\ blast.code = OK
    /\ Len(blast.vec) = 2
    /\ blast.recipients[1] # blast.recipients[2]
    /\ bnfts[blast.vec[1]].holder = blast.recipients[1]
    /\ bnfts[blast.vec[2]].holder = blast.recipients[2]

\* C14 as stated: batch_transfer_to_one aborts with ENotOwner, changing no
\* NFT, when any NFT of the batch has an owner field different from the sender;
\* otherwise every NFT of the batch ends held by the recipient.
C14_NotOwnerOrAllTransferred ==
    [][ blast'.op = "batch_transfer_to_one" =>
          LET v == blast'.vec
          IN IF \E k \in 1..Len(v) : bnfts[v[k]].owner # blast'.sender
             THEN /\ blast'.code = ENotOwner
                  /\ bnfts' = bnfts
             ELSE \A k \in 1..Len(v) : bnfts'[v[k]].holder = blast'.recipient
      ]_vars

\* C14, amended: batch_transfer_to_one fully succeeds or fully fails.  An empty
\* batch aborts with EEmptyBatch and a batch above the limit with
\* ETooManyItems; a batch within the limit aborts with ENotOwner when any of
\* its NFTs has an owner field different from the sender.  An abort changes no
\* NFT, those the loop had already handled included.  Otherwise every NFT of
\* the batch ends held and owned by the recipient and no other NFT changes.
C14_BatchFullySucceedsOrFullyFails ==
    [][ blast'.op = "batch_transfer_to_one" =>
          LET v == blast'.vec
              expected ==
                  IF Len(v) = 0 THEN EEmptyBatch
                  ELSE IF Len(v) > MaxBatchSize THEN ETooManyItems
                  ELSE IF \E k \in 1..Len(v) : bnfts[v[k]].owner # blast'.sender
                       THEN ENotOwner
                       ELSE OK
          IN /\ blast'.code = expected
             /\ IF expected = OK
                THEN /\ \A k \in 1..Len(v) :
                          /\ bnfts'[v[k]].holder = blast'.recipient
                          /\ bnfts'[v[k]].owner = blast'.recipient
                     /\ \A id \in (1..Len(bnfts)) \ Range(v) : bnfts'[id] = bnfts[id]
                     /\ Len(bnfts') = Len(bnfts)
                ELSE bnfts' = bnfts
      ]_vars

\* The loop had handled an NFT of the sender before it reached one whose owner
\* field is somebody else; the batch aborted and the sender still holds both.
C14_Witness ==
    /\ blast.op = "batch_transfer_to_one"
    /\ blast.code = ENotOwner
    /\ Len(blast.vec) = 2
    /\ bnfts[blast.vec[2]].owner = blast.sender
    /\ bnfts[blast.vec[1]].owner # blast.sender
    /\ blast.recipient # blast.sender
    /\ \A k \in 1..2 : bnfts[blast.vec[k]].holder = blast.sender

\* The batch operations of batch_nft.
BatchOps ==
    {"batch_mint_nfts", "batch_transfer_to_one", "batch_transfer_to_many", "batch_burn_nfts",
     "batch_transfer_filtered", "batch_transfer_chunk", "optimized_batch_transfer"}

\* The NFTs a step minted, transferred or burned.
Touched ==
    {id \in 1..Len(bnfts') : id > Len(bnfts) \/ bnfts'[id].holder # bnfts[id].holder}

\* The number of NFTs a call asks to mint, transfer or burn.
Requested(tx) ==
    IF tx.op = "batch_mint_nfts" THEN Len(tx.names)
    ELSE IF tx.op = "batch_transfer_chunk"
         THEN (IF tx.chunk_size < Len(tx.vec) THEN tx.chunk_size ELSE Len(tx.vec))
         ELSE Len(tx.vec)

\* C15 as stated: no batch operation mints, transfers or burns more than the
\* limit in one call, and a larger request aborts with ETooManyItems before
\* any NFT is touched.
C15_LargerRequestIsTooManyItems ==
    [][ blast'.op \in BatchOps =>
          /\ Cardinality(Touched) <= MaxBatchSize
          /\ Requested(blast') > MaxBatchSize =>
                /\ blast'.code = ETooManyItems
                /\ bnfts' = bnfts
                /\ collection' = collection
      ]_vars

\* C15, amended: no batch operation mints, transfers or burns more than the
\* limit in one call.  A larger request aborts before any NFT is touched:
\* with ELengthMismatch when batch_mint_nfts or batch_transfer_to_many gets
\* vectors of different lengths, which they check first, and with
\* ETooManyItems otherwise.  The request of batch_transfer_chunk is
\* min(chunk_size, total).
C15_BatchLimit ==
    [][ blast'.op \in BatchOps =>
          /\ Cardinality(Touched) <= MaxBatchSize
          /\ Requested(blast') > MaxBatchSize =>
                /\ blast'.code =
                      IF /\ blast'.op \in {"batch_mint_nfts", "batch_transfer_to_many"}
                         /\ Len(blast'.recipients) # Requested(blast')
                      THEN ELengthMismatch
                      ELSE ETooManyItems
                /\ bnfts' = bnfts
                /\ collection' = collection
      ]_vars

\* A sender asked to burn more NFTs than the limit, all of them its own, and
\* still holds them all.
C15_Witness ==
    /\ blast.op = "batch_burn_nfts"
    /\ blast.code = ETooManyItems
    /\ Len(blast.vec) > MaxBatchSize
    /\ \A k \in 1..Len(blast.vec) :
          /\ bnfts[blast.vec[k]].holder = blast.sender
          /\ bnfts[blast.vec[k]].owner = blast.sender


\* The places that hold the gift item: the box, the addresses, the returned Option.
GiftItemHolders(g) ==
    Cardinality({a \in Addresses : GiftItem \in g.owned[a]})
      + (IF g.box.item = GiftItem THEN 1 ELSE 0)
      + (IF g.returned = GiftItem THEN 1 ELSE 0)

\* C16: open_gift_box aborts with ENotRecipient unless the sender is the box
\* recipient, and otherwise has three outcomes: past the expiry epoch the item
\* goes to the gift sender, the box is deleted and none is returned whatever the
\* level; else below the required level the box goes back to the recipient
\* unchanged and none is returned; else the box is deleted and its item is
\* returned.  The item keeps exactly one holder.
C16_OpenGiftBoxThreeOutcomes ==
    [][glast'.op = "open_gift_box" =>
         LET box == gift.box
             level == glast'.player_level
         IN /\ glast'.code = (IF glast'.sender = box.recipient THEN OK ELSE ENotRecipient)
            /\ glast'.code = ENotRecipient => gift' = gift
            /\ glast'.code = OK =>
                 IF gift.epoch > box.expiry_epoch
                 THEN /\ gift'.box = no_box
                      /\ gift'.returned = option_none
                      /\ gift'.owned = IF box.item = option_none THEN gift.owned
                                       ELSE [gift.owned EXCEPT ![box.sender] = @ \cup {box.item}]
                 ELSE IF level < box.required_level
                 THEN /\ gift'.box = [box EXCEPT !.holder = box.recipient]
                      /\ gift'.returned = option_none
                      /\ gift'.owned = gift.owned
                 ELSE /\ gift'.box = no_box
                      /\ gift'.returned = box.item
                      /\ gift'.owned = gift.owned
            /\ GiftItemHolders(gift') = GiftItemHolders(gift)
            /\ box.item = GiftItem => GiftItemHolders(gift') = 1]_vars

\* An expired box opened by its recipient with the highest level: the item is
\* back with the gift sender.
C16_Witness ==
    /\ glast.op = "open_gift_box"
    /\ glast.code = OK
    /\ glast.player_level = 255
    /\ gift.box = no_box
    /\ gift.returned = option_none
    /\ gift.owned["A"] = {GiftItem}

\* C17: after accept_exchange succeeds on a non-gift proposal, the target holds
\* the proposer's item, the proposer holds the target's item and the proposal is
\* deleted; no party is left with nothing.
C17_ExchangeGivesBothPartiesAnItem ==
    [][(plast'.op = "accept_exchange" /\ plast'.code = OK) =>
         LET p == trade.proposal
         IN /\ ~p.is_gift
            /\ trade'.proposal.deleted
            /\ plast'.target_item \in trade'.owned[p.proposer]
            /\ p.proposer_item # option_none
            /\ p.proposer_item \in trade'.owned[p.target]
            /\ trade'.owned[p.target] # {}]_vars


\* The items of v in the order pop_back takes them.
Reversed(v) == [k \in 1..Len(v) |-> v[Len(v) + 1 - k]]

\* The subsequence of v of the items in S.
RECURSIVE Kept(_, _)
Kept(v, S) ==
    IF v = <<>> THEN <<>>
    ELSE IF v[1] \in S THEN <<v[1]>> \o Kept(Tail(v), S)
    ELSE Kept(Tail(v), S)

\* C18: for every input vector of n items good_loop calls process_item on each
\* of the n items exactly once, ends with items empty so that destroy_empty
\* does not abort, and returns exactly the items for which process_item gave
\* Some.
C18_GoodLoopHandlesEveryItem ==
    loop.pc = "done" =>
        /\ loop.processed = Reversed(loop.input)
        /\ loop.items = <<>>
        /\ loop.code = OK
        /\ loop.result = Kept(Reversed(loop.input), loop.some)

\* The two crafting functions.
CraftOps == {"craft_item_destroy_on_fail", "craft_item_with_refund"}

\* C19: craft_item_with_refund aborts with ENotOwner unless the sender owns both
\* materials; otherwise, when random_value < recipe.success_rate both materials
\* are destroyed and exactly one new item with the recipe's type, level and
\* rarity is transferred to the sender, and else both materials are back with
\* the sender unchanged and no item is created.
C19_RefundTwoOutcomes ==
    [][clast'.op = "craft_item_with_refund" =>
         LET sender == clast'.sender
             m1 == clast'.material1
             m2 == clast'.material2
             items == craft.items
             owns == items[m1].owner = sender /\ items[m2].owner = sender
         IN /\ clast'.code = (IF owns THEN OK ELSE ENotOwner)
            /\ craft'.recipe = craft.recipe
            /\ clast'.code = ENotOwner => craft' = craft
            /\ clast'.code = OK =>
                 IF clast'.random_value < craft.recipe.success_rate
                 THEN /\ Len(craft'.items) = Len(items) + 1
                      /\ \A k \in 1..Len(items) :
                            craft'.items[k] = IF k \in {m1, m2}
                                              THEN [items[k] EXCEPT !.holder = "deleted"]
                                              ELSE items[k]
                      /\ LET made == craft'.items[Len(items) + 1]
                         IN /\ made.item_type = craft.recipe.result_type
                            /\ made.level = craft.recipe.result_level
                            /\ made.rarity = craft.recipe.result_rarity
                            /\ made.holder = sender
                 ELSE /\ craft'.items = items
                      /\ items[m1].holder = sender
                      /\ items[m2].holder = sender]_vars

\* A refund: the call fails at random_value = success_rate and both materials
\* are still held by the sender.
C19_Witness ==
    /\ clast.op = "craft_item_with_refund"
    /\ clast.code = OK
    /\ clast.random_value = craft.recipe.success_rate
    /\ craft.recipe.success_rate = 50
    /\ craft.items[clast.material1].holder = clast.sender
    /\ craft.items[clast.material2].holder = clast.sender
    /\ Len(craft.items) = 2

\* C20: with success_rate 100 both crafting functions deliver the crafted item
\* for every u8 random_value, and with success_rate 0 crafting fails for every
\* random_value.
C20_SuccessRateIsAPercentage ==
    [][(clast'.op \in CraftOps /\ clast'.code = OK) =>
         /\ craft.recipe.success_rate = 100 =>
              /\ Len(craft'.items) = Len(craft.items) + 1
              /\ craft'.items[Len(craft'.items)].holder = clast'.sender
              /\ clast'.op = "craft_item_destroy_on_fail" => clast'.returned = <<Len(craft'.items)>>
         /\ craft.recipe.success_rate = 0 => Len(craft'.items) = Len(craft.items)]_vars


\* C21: upgrade_item on an item of any u8 level owned by the sender succeeds
\* exactly when random_value is below the level's rate (80 below level 5, 50
\* below level 10, 20 otherwise); on success it returns Some of the same object
\* with level + 1 and the other fields unchanged; on failure the item is
\* destroyed and none is returned.
C21_UpgradeSucceedsBelowTheRate ==
    [][(clast'.op = "upgrade_item" /\ craft.items[clast'.item].owner = clast'.sender) =>
         LET k == clast'.item
             old == craft.items[k]
             rate == IF old.level < 5 THEN 80 ELSE IF old.level < 10 THEN 50 ELSE 20
         IN /\ clast'.code = OK
            /\ IF clast'.random_value < rate
               THEN /\ clast'.returned = <<k>>
                    /\ craft'.items[k] = [old EXCEPT !.level = old.level + 1,
                                                     !.holder = clast'.sender]
               ELSE /\ clast'.returned = <<>>
                    /\ craft'.items[k].holder = "deleted"]_vars


\* The borrowing functions of digital_wallet that only read.
WalletReads == {"get_wallet_info", "is_owner", "get_balance"}

\* C22: get_wallet_info, is_owner and get_balance leave every wallet field
\* unchanged and return the same result when called again;
\* update_transaction_count increases transaction_count by exactly 1 and leaves
\* owner, name and balance unchanged; after any of these calls the wallet is
\* still whole and held by the caller, who can transfer it.
C22_BorrowingKeepsTheWallet ==
    [][/\ wlast'.op \in WalletReads =>
            /\ wallet' = wallet
            /\ (wlast.op = wlast'.op /\ wlast.ret[1] = wlast'.ret[1]) => wlast'.ret = wlast.ret
       /\ wlast'.op = "get_wallet_info" =>
            wlast'.ret = <<wallet.name, wallet.balance, wallet.transaction_count>>
       /\ wlast'.op = "update_transaction_count" =>
            /\ wlast'.code = OK
            /\ wallet' = [wallet EXCEPT !.transaction_count = wallet.transaction_count + 1]
       /\ wlast'.op \in WalletReads \cup {"update_transaction_count"} =>
            /\ wallet'.holder = wlast'.sender
            /\ wallet'.owner \in Addresses
            /\ wallet'.name \in WalletNames]_vars

\* The wallet of A, transferred to B after MaxTransactionCount updates.
C22_Witness ==
    /\ wlast.op = "public_transfer"
    /\ wallet.owner = "A"
    /\ wallet.holder = "B"
    /\ wallet.transaction_count = MaxTransactionCount


\* C23: place_bid accepts a bid only when the auction is active, the epoch is
\* strictly before end_time and the amount is strictly greater than
\* current_bid; otherwise it aborts with EAuctionEnded or EBidTooLow and the
\* auction and every address's funds are unchanged.  Hence current_bid strictly
\* increases over the accepted bids and no bid is accepted after finalize or
\* cancel.
C23_BidAcceptedOnlyWhenHigherAndInTime ==
    [][last'.op = "place_bid" =>
         LET auction == auctions[last'.auction]
             acceptable == /\ auction.is_active
                           /\ epoch < auction.end_time
                           /\ last'.amount > auction.current_bid
         IN /\ last'.code = OK <=> acceptable
            /\ ~acceptable =>
                 /\ last'.code \in {EAuctionEnded, EBidTooLow}
                 /\ UNCHANGED <<auctions, funds, market, owned>>
            /\ acceptable =>
                 /\ auctions'[last'.auction].current_bid > auction.current_bid
                 /\ auctions'[last'.auction].current_bid >= auction.starting_price]_vars

\* A bid on an ended auction, made before end_time with an amount above the
\* current bid, was rejected with EAuctionEnded.
C23_Witness ==
    /\ last.op = "place_bid"
    /\ last.code = EAuctionEnded
    /\ ~auctions[last.auction].is_active
    /\ epoch < auctions[last.auction].end_time
    /\ last.amount > auctions[last.auction].current_bid

\* C26: in every reachable state bid_deposit equals current_bid while the
\* auction is active and has a highest bidder, and is zero when there is no
\* highest bidder or after the auction has been finalized or cancelled.
C26_DepositInvariant ==
    \A i \in 1..Len(auctions) :
        LET auction == auctions[i]
        IN /\ (auction.is_active /\ auction.highest_bidder # none) =>
                 auction.bid_deposit = auction.current_bid
           /\ (auction.highest_bidder = none \/ ~auction.is_active) =>
                 auction.bid_deposit = 0

\* A finalized auction that had a highest bidder: its deposit has been paid out.
C26_Witness ==
    \E i \in 1..Len(auctions) :
        /\ ~auctions[i].is_active
        /\ auctions[i].highest_bidder # none
        /\ auctions[i].current_bid > 0
        /\ auctions[i].bid_deposit = 0

\* C27: once the epoch reaches end_time, finalize_auction on an active auction
\* does not abort, whatever the bids and the platform fee rate; after a
\* successful finalize_auction or cancel_auction every further one aborts with
\* EAuctionEnded, and finalize_auction before end_time aborts with
\* EAuctionActive.
C27_FinalizeAtEndTimeDoesNotAbort ==
    [][/\ last'.op = "finalize_auction" =>
            LET auction == auctions[last'.auction]
            IN /\ epoch < auction.end_time => last'.code = EAuctionActive
               /\ (epoch >= auction.end_time /\ auction.is_active) => last'.code = OK
               /\ (epoch >= auction.end_time /\ ~auction.is_active) =>
                     last'.code = EAuctionEnded
       /\ (last'.op = "cancel_auction" /\ ~auctions[last'.auction].is_active
             /\ last'.sender = auctions[last'.auction].seller) =>
            last'.code = EAuctionEnded]_vars


\* The NFTs of v with a serial number in [lo, hi], in the state objects.
InRange(objects, v, lo, hi) ==
    {id \in Range(v) : objects[id].serial_number >= lo /\ objects[id].serial_number <= hi}

\* C24 as stated: batch_transfer_filtered leaves every NFT of the batch with a
\* serial number in [min_serial, max_serial] held by recipient and every other
\* one held by the sender, the vector empty, and emits counts with
\* transferred + returned = number of input NFTs.
C24_FilteredAlwaysPartitions ==
    [][blast'.op = "batch_transfer_filtered" =>
         LET tx == blast'
             in == InRange(bnfts, tx.vec, tx.min_serial, tx.max_serial)
         IN /\ \A id \in in : bnfts'[id].holder = tx.recipient
            /\ \A id \in Range(tx.vec) \ in : bnfts'[id].holder = tx.sender
            /\ tx.left = <<>>
            /\ tx.code = OK
            /\ tx.event.transferred + tx.event.returned = Len(tx.vec)]_vars

\* C24, amended: a batch above the limit aborts with ETooManyItems and a batch
\* within the limit with an NFT whose owner field is not the sender aborts with
\* ENotOwner, both changing nothing; otherwise the batch is partitioned as
\* stated, the owner field of every NFT follows its holder, and the counts are
\* the sizes of the two parts.
C24_FilteredPartitionsTheBatch ==
    [][blast'.op = "batch_transfer_filtered" =>
         LET tx == blast'
             in == InRange(bnfts, tx.vec, tx.min_serial, tx.max_serial)
             foreign == \E id \in Range(tx.vec) : bnfts[id].owner # tx.sender
         IN /\ tx.code = (IF Len(tx.vec) > MaxBatchSize THEN ETooManyItems
                          ELSE IF foreign THEN ENotOwner ELSE OK)
            /\ tx.code # OK => bnfts' = bnfts
            /\ tx.code = OK =>
                 /\ \A id \in in :
                       bnfts'[id] = [bnfts[id] EXCEPT !.holder = tx.recipient,
                                                      !.owner = tx.recipient]
                 /\ \A id \in (1..Len(bnfts)) \ in : bnfts'[id] = bnfts[id]
                 /\ \A id \in Range(tx.vec) \ in : bnfts'[id].holder = tx.sender
                 /\ tx.left = <<>>
                 /\ tx.event.transferred = Cardinality(in)
                 /\ tx.event.returned = Len(tx.vec) - Cardinality(in)
                 /\ tx.event.transferred + tx.event.returned = Len(tx.vec)]_vars

\* A batch of two was split: one NFT went to another address, one came back.
C24_Witness ==
    /\ blast.op = "batch_transfer_filtered"
    /\ blast.code = OK
    /\ blast.recipient # blast.sender
    /\ blast.event.transferred = 1
    /\ blast.event.returned = 1
    /\ \E k \in 1..2 : /\ bnfts[blast.vec[k]].holder = blast.recipient
                       /\ bnfts[blast.vec[3 - k]].holder = blast.sender

\* The last m NFTs of v: those the first loop of batch_transfer_chunk pops.
LastOf(v, m) == {v[k] : k \in (Len(v) - m + 1)..Len(v)}

\* min(chunk_size, total)
MinOf(a, b) == IF a < b THEN a ELSE b

\* C25 as stated: for a batch of total NFTs owned by the sender and
\* chunk_size > 0, batch_transfer_chunk transfers exactly min(chunk_size, total)
\* NFTs to recipient and returns the other total - min(chunk_size, total), none
\* lost or duplicated; for a batch that is not empty the returned vector is
\* shorter than the input, so that feeding it back ends with the whole batch
\* transferred.
C25_ChunkAlwaysProcessesOnePart ==
    [][(/\ blast'.op = "batch_transfer_chunk"
        /\ blast'.chunk_size > 0
        /\ \A id \in Range(blast'.vec) : bnfts[id].owner = blast'.sender) =>
         LET tx == blast'
             total == Len(tx.vec)
             m == MinOf(tx.chunk_size, total)
             moved == LastOf(tx.vec, m)
         IN /\ tx.code = OK
            /\ \A id \in moved : bnfts'[id].holder = tx.recipient
            /\ Len(tx.remaining) = total - m
            /\ NoDup(tx.remaining)
            /\ Range(tx.remaining) = Range(tx.vec) \ moved
            /\ total > 0 => Len(tx.remaining) < total]_vars

\* C25, amended: the same for min(chunk_size, total) within the batch limit; a
\* larger chunk aborts with ETooManyItems and changes nothing.
C25_ChunkProcessesOnePart ==
    [][(/\ blast'.op = "batch_transfer_chunk"
        /\ blast'.chunk_size > 0
        /\ \A id \in Range(blast'.vec) : bnfts[id].owner = blast'.sender) =>
         LET tx == blast'
             total == Len(tx.vec)
             m == MinOf(tx.chunk_size, total)
             moved == LastOf(tx.vec, m)
         IN IF m > MaxBatchSize
            THEN /\ tx.code = ETooManyItems
                 /\ bnfts' = bnfts
            ELSE /\ tx.code = OK
                 /\ \A id \in moved :
                       bnfts'[id] = [bnfts[id] EXCEPT !.holder = tx.recipient,
                                                      !.owner = tx.recipient]
                 /\ \A id \in (1..Len(bnfts)) \ moved : bnfts'[id] = bnfts[id]
                 /\ Len(tx.remaining) = total - m
                 /\ NoDup(tx.remaining)
                 /\ Range(tx.remaining) = Range(tx.vec) \ moved
                 /\ total > 0 => Len(tx.remaining) < total]_vars

\* A chunk of one out of a batch of two: one NFT is with the recipient and the
\* other is in the returned vector, still held by the sender.
C25_Witness ==
    /\ blast.op = "batch_transfer_chunk"
    /\ blast.code = OK
    /\ blast.chunk_size = 1
    /\ Len(blast.vec) = 2
    /\ blast.recipient # blast.sender
    /\ blast.remaining = <<blast.vec[1]>>
    /\ bnfts[blast.vec[2]].holder = blast.recipient
    /\ bnfts[blast.vec[1]].holder = blast.sender


\* C28: after any sequence of batch_mint_nfts calls on one collection the
\* serial numbers of the NFTs minted for it are pairwise distinct and are
\* exactly the numbers from the initial total_supply up to total_supply - 1;
\* total_supply grows by count on each call, and the name at input index k is
\* minted for recipients[k].
C28_SerialNumbersUniqueAndDense ==
    /\ [](\A i, j \in 1..Len(bnfts) :
              i # j => bnfts[i].serial_number # bnfts[j].serial_number)
    /\ []({bnfts[i].serial_number : i \in 1..Len(bnfts)}
              = (collection.total_supply - Len(bnfts))..(collection.total_supply - 1))
    /\ [][blast'.op = "batch_mint_nfts" =>
            LET names == blast'.names
                recipients == blast'.recipients
                count == Len(names)
            IN IF blast'.code = OK
               THEN /\ collection'.total_supply = collection.total_supply + count
                    /\ Len(bnfts') = Len(bnfts) + count
                    /\ \A k \in 1..count :
                          \E id \in (Len(bnfts) + 1)..Len(bnfts') :
                             /\ bnfts'[id].serial_number = collection.total_supply + (count - k)
                             /\ bnfts'[id].name = names[k]
                             /\ bnfts'[id].owner = recipients[k]
                             /\ bnfts'[id].holder = recipients[k]
               ELSE /\ collection' = collection
                    /\ bnfts' = bnfts]_vars

\* Two batches on a collection that started at total_supply 1: the second one
\* minted two NFTs with different names for different recipients.
C28_Witness ==
    /\ blast.op = "batch_mint_nfts"
    /\ blast.code = OK
    /\ Len(blast.names) = 2
    /\ blast.names[1] # blast.names[2]
    /\ blast.recipients[1] # blast.recipients[2]
    /\ Len(bnfts) = 3
    /\ collection.total_supply = 4
    /\ bnfts[2].name = blast.names[2] /\ bnfts[2].holder = blast.recipients[2]
    /\ bnfts[3].name = blast.names[1] /\ bnfts[3].holder = blast.recipients[1]

\* The outcome of optimized_batch_transfer and of batch_transfer_to_one on the
\* arguments of the call tx in the state before it.
SameOutcome(tx, objects, after) ==
    LET one == batch_transfer_to_one_result(objects, tx.sender, tx.vec, tx.recipient)
    IN /\ tx.code = one.code
       /\ after = one.objects

\* C29 as stated: for every sender, recipient and batch of at most 100 NFTs,
\* optimized_batch_transfer and batch_transfer_to_one either both abort with
\* the same code and change nothing, or both end with the same holder and owner
\* field for every NFT.
C29_OptimizedEqualsToOneUpToTheLimit ==
    [][(blast'.op = "optimized_batch_transfer" /\ Len(blast'.vec) <= MaxBatchSize) =>
         /\ SameOutcome(blast', bnfts, bnfts')
         /\ blast'.code # OK => bnfts' = bnfts]_vars

\* C29, amended: the two are equivalent on batches of 1 to 100 NFTs; on an
\* empty batch batch_transfer_to_one aborts with EEmptyBatch while
\* optimized_batch_transfer commits and changes nothing.
C29_OptimizedEqualsToOneOnNonEmptyBatches ==
    [][blast'.op = "optimized_batch_transfer" =>
         LET tx == blast'
             one == batch_transfer_to_one_result(bnfts, tx.sender, tx.vec, tx.recipient)
         IN /\ (Len(tx.vec) >= 1 /\ Len(tx.vec) <= MaxBatchSize) =>
                 /\ SameOutcome(tx, bnfts, bnfts')
                 /\ tx.code \in {OK, ENotOwner}
            /\ tx.code # OK => bnfts' = bnfts
            /\ Len(tx.vec) = 0 =>
                 /\ tx.code = OK
                 /\ bnfts' = bnfts
                 /\ one.code = EEmptyBatch
                 /\ one.objects = bnfts]_vars

\* optimized_batch_transfer refused a batch of two whose first NFT has another
\* owner field, as batch_transfer_to_one does.
C29_Witness ==
    /\ blast.op = "optimized_batch_transfer"
    /\ blast.code = ENotOwner
    /\ Len(blast.vec) = 2
    /\ bnfts[blast.vec[1]].owner # blast.sender
    /\ bnfts[blast.vec[2]].owner = blast.sender
    /\ batch_transfer_to_one_result(bnfts, blast.sender, blast.vec, blast.recipient).code = ENotOwner


\* The places that hold the proposer's item: the proposal and the addresses.
ProposerItemHolders(t) ==
    Cardinality({a \in Addresses : ProposerItem \in t.owned[a]})
      + (IF t.proposal.proposer_item = ProposerItem THEN 1 ELSE 0)

TradeOps == {"accept_gift", "accept_exchange", "cancel_trade"}

\* C30: accept_gift succeeds only for sender = target on a gift proposal,
\* accept_exchange only for sender = target on a non-gift proposal, cancel_trade
\* only for sender = proposer; each success deletes the proposal, after which no
\* accept or cancel applies, and leaves the proposer's item with the target
\* (accepted) or the proposer (cancelled), in exactly one place; a failed call
\* leaves the proposal and all items unchanged.
C30_ProposalResolvedOnceByTheEntitledParty ==
    /\ [][plast'.op \in TradeOps =>
            LET p == trade.proposal
                entitled == CASE plast'.op = "accept_gift" ->
                                   plast'.sender = p.target /\ p.is_gift
                              [] plast'.op = "accept_exchange" ->
                                   plast'.sender = p.target /\ ~p.is_gift
                              [] plast'.op = "cancel_trade" ->
                                   plast'.sender = p.proposer
                to == IF plast'.op = "cancel_trade" THEN p.proposer ELSE p.target
            IN /\ ~p.deleted
               /\ plast'.code = OK <=> entitled
               /\ plast'.code # OK => trade' = trade
               /\ plast'.code = OK =>
                    /\ trade'.proposal.deleted
                    /\ trade'.proposal.proposer_item = option_none
                    /\ p.proposer_item # option_none =>
                          /\ p.proposer_item \in trade'.owned[to]
                          /\ ProposerItemHolders(trade') = 1
               /\ ProposerItemHolders(trade') = ProposerItemHolders(trade)]_vars
    /\ [][trade.proposal.deleted => trade' = trade]_vars

\* The proposer cancelled and holds its item again.
C30_Witness ==
    /\ plast.op = "cancel_trade"
    /\ plast.code = OK
    /\ trade.proposal.deleted
    /\ ProposerItem \in trade.owned[plast.sender]
    /\ ProposerItemHolders(trade) = 1

====
